---- MODULE Spec2Model ----
(***************************************************************************)
(* EcoGrid: the logical hierarchy (BPlusIndex) kept over the physical      *)
(* graph (PowerGridGraph) by LogicalGraphService, with the parent          *)
(* selection (Dijkstra) and the load aggregation it relies on.             *)
(*                                                                         *)
(* Node ids are the naturals 1..NumIds (their order stands for the order   *)
(* of the id strings).  Loads, capacities and edge lengths are naturals.   *)
(* Every node has nominal_voltage = None, so that estimate_edge_loss takes *)
(* its fallback branch, cost = |power| * length.                           *)
(***************************************************************************)
EXTENDS Integers, Sequences, FiniteSets, TLC

VARIABLES
    nodes,                \* PowerGridGraph.nodes: id -> Node (a dict: DOMAIN = keys)
    nodes_order,          \* the key order of PowerGridGraph.nodes (insertion order)
    edges,                \* PowerGridGraph.edges: <<a, b>> (a < b) -> length
    _parent,              \* BPlusIndex._parent: id -> parent id or None
    _children,            \* BPlusIndex._children: id -> list of child ids
    unsupplied_consumers, \* LogicalGraphService.unsupplied_consumers
    log_buffer,           \* LogicalGraphService.log_buffer: the messages not yet read
    logged,               \* history: every message passed to log(), in order
    delivered,            \* history: the lists consume_logs() has returned, one after another
    last,                 \* the name of the last call that changed anything ("init": none yet)
    calls,                \* how many calls have changed anything so far
    pc                    \* "idle" between calls, "looping" inside a call that never returns

vars == <<nodes, nodes_order, edges, _parent, _children, unsupplied_consumers,
          log_buffer, logged, delivered, last, calls, pc>>

----------------------------------------------------------------------------
\* Bounds and values

NumIds == 3

Ids == 1..NumIds

\* the runs explored are those in which at most MaxCalls calls change anything,
\* and those with one handle_overload more
MaxCalls == 2

\* Python's None for an optional id / an optional capacity.
None == 0
NoCap == -1

GENERATION_PLANT == "GENERATION_PLANT"
TRANSMISSION_SUBSTATION == "TRANSMISSION_SUBSTATION"
DISTRIBUTION_SUBSTATION == "DISTRIBUTION_SUBSTATION"
CONSUMER_POINT == "CONSUMER_POINT"

NodeType == {GENERATION_PLANT, TRANSMISSION_SUBSTATION, DISTRIBUTION_SUBSTATION, CONSUMER_POINT}

----------------------------------------------------------------------------
\* Python dict and list helpers

EmptyDict == [x \in {} |-> None]

DictGet(d, k, default) == IF k \in DOMAIN d THEN d[k] ELSE default

DictPut(d, k, v) == [x \in (DOMAIN d) \cup {k} |-> IF x = k THEN v ELSE d[x]]

DictPop(d, k) == [x \in (DOMAIN d) \ {k} |-> d[x]]

DictSetDefault(d, k, v) == IF k \in DOMAIN d THEN d ELSE DictPut(d, k, v)

Range(s) == {s[i] : i \in 1..Len(s)}

\* list.remove(x): drops the first occurrence of x
ListRemove(s, x) ==
    IF x \notin Range(s) THEN s
    ELSE LET i == CHOOSE j \in 1..Len(s) : s[j] = x /\ \A k \in 1..(j - 1) : s[k] # x
         IN  SubSeq(s, 1, i - 1) \o SubSeq(s, i + 1, Len(s))

RECURSIVE SumSeq(_)
SumSeq(s) == IF s = <<>> THEN 0 ELSE Head(s) + SumSeq(Tail(s))

\* v, then F of its value: v is evaluated once, however often F uses it
Then(v, F(_)) == CHOOSE r \in {F(x) : x \in {v}} : TRUE

\* all orderings of a finite set, as sequences
RECURSIVE Perms(_)
Perms(S) ==
    IF S = {} THEN {<<>>}
    ELSE UNION {{<<x>> \o p : p \in Perms(S \ {x})} : x \in S}

----------------------------------------------------------------------------
\* The program state as one value, so that calls compose.
\* hung = TRUE: control is inside a loop that does not end.
\* exc = TRUE: an exception was raised and is propagating to the caller.

Cur ==
    [nodes |-> nodes, order |-> nodes_order, edges |-> edges,
     parent |-> _parent, children |-> _children,
     unsup |-> unsupplied_consumers, hung |-> FALSE, exc |-> FALSE]

Install(s) ==
    /\ nodes' = s.nodes
    /\ nodes_order' = s.order
    /\ edges' = s.edges
    /\ _parent' = s.parent
    /\ _children' = s.children
    /\ unsupplied_consumers' = s.unsup
    /\ pc' = IF s.hung THEN "looping" ELSE "idle"
    /\ UNCHANGED <<log_buffer, logged, delivered>>

----------------------------------------------------------------------------
\* BPlusIndex

get_parent(s, node_id) == DictGet(s.parent, node_id, None)

get_children(s, node_id) == DictGet(s.children, node_id, <<>>)

get_roots(s) == {n \in DOMAIN s.parent : s.parent[n] = None}

\* _dfs of iter_preorder, with the nodes still to visit kept as a list: a node already
\* visited is skipped, any other is appended to the result and its children come next
RECURSIVE _dfs(_, _, _)
_dfs(s, todo, result) ==
    IF todo = <<>> THEN result
    ELSE IF Head(todo) \in Range(result) THEN _dfs(s, Tail(todo), result)
    ELSE _dfs(s, get_children(s, Head(todo)) \o Tail(todo), Append(result, Head(todo)))

\* iter_preorder() from the default roots; the roots are taken in the order of their
\* ids, the insertion order of _parent is not kept in the model
iter_preorder(s) ==
    LET roots == get_roots(s)
        l == CHOOSE q \in [1..Cardinality(roots) -> roots] :
                 \A i, j \in 1..Cardinality(roots) : i < j => q[i] < q[j]
    IN  _dfs(s, l, <<>>)

\* iter_preorder(root_ids) from the roots the caller names, in the order given
iter_preorder_from(s, root_ids) == _dfs(s, root_ids, <<>>)

add_root(s, node_id) ==
    [s EXCEPT !.parent = DictPut(s.parent, node_id, None),
              !.children = DictSetDefault(s.children, node_id, <<>>)]

set_parent_NoAppend(s, child_id, parent_id) ==
    LET old_parent == DictGet(s.parent, child_id, None)
        c1 == IF old_parent # None /\ old_parent \in DOMAIN s.children
              THEN [s.children EXCEPT ![old_parent] = ListRemove(@, child_id)]
              ELSE s.children
        c2 == DictSetDefault(c1, child_id, <<>>)
        c3 == IF parent_id # None THEN DictSetDefault(c2, parent_id, <<>>) ELSE c2
    IN  [s EXCEPT !.parent = DictPut(s.parent, child_id, parent_id), !.children = c3]

set_parent(s, child_id, parent_id) ==
    LET old_parent == DictGet(s.parent, child_id, None)
        c1 == IF old_parent # None /\ old_parent \in DOMAIN s.children
              THEN [s.children EXCEPT ![old_parent] = ListRemove(@, child_id)]
              ELSE s.children
        c2 == DictSetDefault(c1, child_id, <<>>)
        c3 == IF parent_id # None THEN DictSetDefault(c2, parent_id, <<>>) ELSE c2
        c4 == IF parent_id # None /\ child_id \notin Range(c3[parent_id])
              THEN [c3 EXCEPT ![parent_id] = Append(@, child_id)]
              ELSE c3
    IN  [s EXCEPT !.parent = DictPut(s.parent, child_id, parent_id), !.children = c4]

\* _is_descendant: the stack-based reachability search through child lists
RECURSIVE is_descendant_loop(_, _, _, _)
is_descendant_loop(s, stack, visited, possible_descendant_id) ==
    IF stack = <<>> THEN FALSE
    ELSE LET current == stack[Len(stack)]
             rest == SubSeq(stack, 1, Len(stack) - 1)
         IN  IF current \in visited
             THEN is_descendant_loop(s, rest, visited, possible_descendant_id)
             ELSE LET kids == DictGet(s.children, current, <<>>)
                  IN  IF possible_descendant_id \in Range(kids) THEN TRUE
                      ELSE is_descendant_loop(s, rest \o kids, visited \cup {current},
                                              possible_descendant_id)

_is_descendant(s, ancestor_id, possible_descendant_id) ==
    is_descendant_loop(s, <<ancestor_id>>, {}, possible_descendant_id)

move_subtree(s, subtree_root_id, new_parent_id) ==
    IF subtree_root_id = new_parent_id THEN s
    ELSE IF new_parent_id # None /\ _is_descendant(s, subtree_root_id, new_parent_id) THEN s
    ELSE set_parent(s, subtree_root_id, new_parent_id)

detach_node_KeepsChildEntry(s, node_id) ==
    IF node_id \notin DOMAIN s.parent THEN s
    ELSE [s EXCEPT !.parent = [s.parent EXCEPT ![node_id] = None]]

detach_node(s, node_id) ==
    IF node_id \notin DOMAIN s.parent THEN s
    ELSE LET current_parent == s.parent[node_id]
             c1 == IF current_parent # None /\ current_parent \in DOMAIN s.children
                   THEN [s.children EXCEPT ![current_parent] = ListRemove(@, node_id)]
                   ELSE s.children
         IN  [s EXCEPT !.parent = [s.parent EXCEPT ![node_id] = None], !.children = c1]

remove_node(s, node_id) ==
    IF node_id \notin DOMAIN s.parent /\ node_id \notin DOMAIN s.children THEN s
    ELSE LET parent_id == DictGet(s.parent, node_id, None)
             c1 == IF parent_id # None /\ parent_id \in DOMAIN s.children
                   THEN [s.children EXCEPT ![parent_id] = ListRemove(@, node_id)]
                   ELSE s.children
             p1 == [x \in DOMAIN s.parent |-> IF s.parent[x] = node_id THEN None ELSE s.parent[x]]
         IN  [s EXCEPT !.parent = DictPop(p1, node_id), !.children = DictPop(c1, node_id)]

----------------------------------------------------------------------------
\* PowerGridGraph

Node(node_type, capacity, current_load) ==
    [node_type |-> node_type, capacity |-> capacity, current_load |-> current_load]

Stopped(s) == s.hung \/ s.exc

HasNode(s, node_id) == node_id \in DOMAIN s.nodes

graph_add_node(s, node_id, node) ==
    [s EXCEPT !.nodes = DictPut(s.nodes, node_id, node),
              !.order = IF node_id \in DOMAIN s.nodes THEN s.order ELSE Append(s.order, node_id)]

\* An edge is [a, b, length]; its id is the pair of its end points.
EdgeId(a, b) == IF a < b THEN <<a, b>> ELSE <<b, a>>

graph_add_edge(s, e) ==
    IF ~HasNode(s, e.a) \/ ~HasNode(s, e.b)
    THEN [s EXCEPT !.exc = TRUE]              \* raise KeyError
    ELSE [s EXCEPT !.edges = DictPut(s.edges, EdgeId(e.a, e.b), e.length)]

graph_remove_node(s, node_id) ==
    IF ~HasNode(s, node_id) THEN s
    ELSE [s EXCEPT !.edges = [k \in {x \in DOMAIN s.edges : x[1] # node_id /\ x[2] # node_id}
                                |-> s.edges[k]],
                   !.nodes = DictPop(s.nodes, node_id),
                   !.order = ListRemove(s.order, node_id)]

----------------------------------------------------------------------------
\* physical.energy_loss: with no nominal voltage on any node the estimate is
\* the fallback abs(power) * length; no power, no cost.

estimate_edge_loss(length, power) == IF power <= 0 THEN 0 ELSE power * length

----------------------------------------------------------------------------
\* logic.load_aggregation

\* a None load counts as 0.0 everywhere it is read
LoadOf(s, node_id) == IF HasNode(s, node_id) THEN s.nodes[node_id].current_load ELSE 0

ChildLoads(s, node_id) ==
    LET kids == get_children(s, node_id)
    IN  [i \in 1..Len(kids) |-> LoadOf(s, kids[i])]

recompute_node_load_from_children(s, node_id) ==
    IF ~HasNode(s, node_id) THEN s
    ELSE [s EXCEPT !.nodes[node_id].current_load = SumSeq(ChildLoads(s, node_id))]

\* the while loop of propagate_load_upwards; the index does not change inside
\* it, so coming back to a node already passed means the loop never ends
RECURSIVE propagate_loop(_, _, _)
propagate_loop(s, current_id, passed) ==
    LET parent_id == get_parent(s, current_id)
    IN  IF parent_id = None THEN s
        ELSE IF parent_id \in passed THEN [s EXCEPT !.hung = TRUE]
        ELSE propagate_loop(recompute_node_load_from_children(s, parent_id),
                            parent_id, passed \cup {parent_id})

propagate_NoOp(s, start_node_id) == s

propagate_load_upwards(s, start_node_id) ==
    propagate_loop(s, start_node_id, {start_node_id})

recompute_consumer_load(s, consumer_id, total_power) ==
    IF ~HasNode(s, consumer_id) THEN s
    ELSE IF s.nodes[consumer_id].node_type # CONSUMER_POINT THEN s
    ELSE [s EXCEPT !.nodes[consumer_id].current_load = total_power]

\* total_power: the sum of current_power over the consumer's devices
agg_update_load_after_device_change(s, consumer_id, total_power) ==
    propagate_load_upwards(recompute_consumer_load(s, consumer_id, total_power), consumer_id)

----------------------------------------------------------------------------
\* logic.parent_selection

_allowed_parent_types_for(child_type) ==
    IF child_type = CONSUMER_POINT THEN {DISTRIBUTION_SUBSTATION}
    ELSE IF child_type = DISTRIBUTION_SUBSTATION THEN {TRANSMISSION_SUBSTATION}
    ELSE IF child_type = TRANSMISSION_SUBSTATION THEN {GENERATION_PLANT}
    ELSE {}

Inf == 1000000

ParentSelectionResult(parent_id, total_cost, path) ==
    [parent_id |-> parent_id, total_cost |-> total_cost, path |-> path]

\* Python's order on lists of ids
RECURSIVE ListLess(_, _)
ListLess(p, q) ==
    IF q = <<>> THEN FALSE
    ELSE IF p = <<>> THEN TRUE
    ELSE IF Head(p) # Head(q) THEN Head(p) < Head(q)
    ELSE ListLess(Tail(p), Tail(q))

\* Python's order on the heap's tuples (cost, node_id, path)
TupleLess(t, u) ==
    \/ t[1] < u[1]
    \/ t[1] = u[1] /\ t[2] < u[2]
    \/ t[1] = u[1] /\ t[2] = u[2] /\ ListLess(t[3], u[3])

HeapPop_Last(heap) == CHOOSE t \in heap : \A u \in heap \ {t} : TupleLess(u, t)

HeapPop(heap) == CHOOSE t \in heap : \A u \in heap \ {t} : TupleLess(t, u)

IncidentEdges(s, node_id) == {k \in DOMAIN s.edges : k[1] = node_id \/ k[2] = node_id}

OtherEnd(k, node_id) == IF k[1] = node_id THEN k[2] ELSE k[1]

RECURSIVE dijkstra_loop(_, _, _, _, _)
dijkstra_loop_DirectOnly(s, heap, visited, candidate_parents, power) ==
    IF heap = {} THEN ParentSelectionResult(None, Inf, <<>>)
    ELSE LET top == HeapPop(heap)
             rest == heap \ {top}
             cost == top[1]
             current_id == top[2]
             path == top[3]
         IN  IF current_id \in visited
             THEN dijkstra_loop(s, rest, visited, candidate_parents, power)
             ELSE IF current_id \in candidate_parents
             THEN ParentSelectionResult(current_id, cost, path)
             ELSE LET visited2 == visited \cup {current_id}
                      pushed == {<<cost + estimate_edge_loss(s.edges[k], power),
                                   OtherEnd(k, current_id),
                                   Append(path, OtherEnd(k, current_id))>> :
                                 k \in {e \in IncidentEdges(s, current_id) :
                                          /\ OtherEnd(e, current_id) \notin visited2
                                          /\ HasNode(s, OtherEnd(e, current_id))
                                          /\ Len(path) = 1}}
                  IN  dijkstra_loop(s, rest \cup pushed, visited2, candidate_parents, power)

dijkstra_loop(s, heap, visited, candidate_parents, power) ==
    IF heap = {} THEN ParentSelectionResult(None, Inf, <<>>)
    ELSE LET top == HeapPop(heap)
             rest == heap \ {top}
             cost == top[1]
             current_id == top[2]
             path == top[3]
         IN  IF current_id \in visited
             THEN dijkstra_loop(s, rest, visited, candidate_parents, power)
             ELSE IF current_id \in candidate_parents
             THEN ParentSelectionResult(current_id, cost, path)
             ELSE LET visited2 == visited \cup {current_id}
                      pushed == {<<cost + estimate_edge_loss(s.edges[k], power),
                                   OtherEnd(k, current_id),
                                   Append(path, OtherEnd(k, current_id))>> :
                                 k \in {e \in IncidentEdges(s, current_id) :
                                          /\ OtherEnd(e, current_id) \notin visited2
                                          /\ HasNode(s, OtherEnd(e, current_id))}}
                  IN  dijkstra_loop(s, rest \cup pushed, visited2, candidate_parents, power)

find_best_parent_for_node(s, child_id) ==
    IF ~HasNode(s, child_id) THEN ParentSelectionResult(None, Inf, <<>>)
    ELSE LET child == s.nodes[child_id]
             allowed_parent_types == _allowed_parent_types_for(child.node_type)
             power_for_routing == IF child.current_load = 0 THEN 1 ELSE child.current_load
             candidate_parents == {n \in DOMAIN s.nodes :
                                     n # child_id /\ s.nodes[n].node_type \in allowed_parent_types}
         IN  IF allowed_parent_types = {} THEN ParentSelectionResult(None, Inf, <<>>)
             ELSE IF candidate_parents = {} THEN ParentSelectionResult(None, Inf, <<>>)
             ELSE dijkstra_loop(s, {<<0, child_id, <<child_id>>>>}, {}, candidate_parents,
                                power_for_routing)

----------------------------------------------------------------------------
\* logic.logical_graph_service

ChangeParentResult(success, child_id, old_parent_id, new_parent_id, reason) ==
    [success |-> success, child_id |-> child_id, old_parent_id |-> old_parent_id,
     new_parent_id |-> new_parent_id, reason |-> reason]

svc_allowed_parent_types_AnyStation(child_type) ==
    IF child_type = CONSUMER_POINT THEN {DISTRIBUTION_SUBSTATION, TRANSMISSION_SUBSTATION}
    ELSE IF child_type = DISTRIBUTION_SUBSTATION THEN {TRANSMISSION_SUBSTATION}
    ELSE IF child_type = TRANSMISSION_SUBSTATION THEN {GENERATION_PLANT}
    ELSE {}

\* _allowed_parent_types_for of logical_graph_service (its own copy of the table)
svc_allowed_parent_types_for(child_type) ==
    IF child_type = CONSUMER_POINT THEN {DISTRIBUTION_SUBSTATION}
    ELSE IF child_type = DISTRIBUTION_SUBSTATION THEN {TRANSMISSION_SUBSTATION}
    ELSE IF child_type = TRANSMISSION_SUBSTATION THEN {GENERATION_PLANT}
    ELSE {}

_has_capacity_for_child(parent, child) ==
    IF parent.capacity = NoCap THEN TRUE
    ELSE (parent.current_load + child.current_load) <= parent.capacity

UnsupAdd(s, node_id) == [s EXCEPT !.unsup = @ \cup {node_id}]

UnsupDiscard(s, node_id) == [s EXCEPT !.unsup = @ \ {node_id}]

IsConsumer(s, node_id) == HasNode(s, node_id) /\ s.nodes[node_id].node_type = CONSUMER_POINT

Ret(s, r) == [s |-> s, r |-> r]

\* what follows index.set_parent in both change-parent operations: the loads of the
\* old and of the new parent chain, then the unsupplied set
AfterSetParent(s0, child_id, old_parent_id, new_parent_id, reason) ==
    LET s1 == IF old_parent_id # None
              THEN propagate_load_upwards(
                       recompute_node_load_from_children(s0, old_parent_id), old_parent_id)
              ELSE s0
        s2 == IF Stopped(s1) THEN s1
              ELSE propagate_load_upwards(
                       recompute_node_load_from_children(s1, new_parent_id), new_parent_id)
        s3 == IF Stopped(s2) THEN s2
              ELSE IF IsConsumer(s2, child_id) THEN UnsupDiscard(s2, child_id) ELSE s2
    IN  Ret(s3, ChangeParentResult(TRUE, child_id, old_parent_id, new_parent_id, reason))

change_parent_NoCapacityReturn(s, child_id) ==
    IF ~HasNode(s, child_id)
    THEN Ret(s, ChangeParentResult(FALSE, child_id, None, None, "child node not found"))
    ELSE
    LET child == s.nodes[child_id]
        old_parent_id == get_parent(s, child_id)
        ps_result == find_best_parent_for_node(s, child_id)
        new_parent_id == ps_result.parent_id
    IN  IF new_parent_id = None
        THEN Ret(IF child.node_type = CONSUMER_POINT THEN UnsupAdd(s, child_id) ELSE s,
                 ChangeParentResult(FALSE, child_id, old_parent_id, None,
                                    "no compatible parent found via routing"))
        ELSE IF old_parent_id = new_parent_id
        THEN Ret(s, ChangeParentResult(TRUE, child_id, old_parent_id, new_parent_id,
                                       "parent unchanged (best parent is current parent)"))
        ELSE IF ~HasNode(s, new_parent_id)
        THEN Ret(s, ChangeParentResult(FALSE, child_id, old_parent_id, None,
                                       "new parent node not found"))
        ELSE LET r == AfterSetParent(set_parent(s, child_id, new_parent_id), child_id,
                                     old_parent_id, new_parent_id, "parent changed via routing")
             IN  IF _has_capacity_for_child(s.nodes[new_parent_id], child) THEN r
                 ELSE Ret(r.s, ChangeParentResult(FALSE, child_id, old_parent_id, new_parent_id,
                                                  "new parent has insufficient capacity"))

change_parent_NoMark(s, child_id) ==
    IF ~HasNode(s, child_id)
    THEN Ret(s, ChangeParentResult(FALSE, child_id, None, None, "child node not found"))
    ELSE
    LET child == s.nodes[child_id]
        old_parent_id == get_parent(s, child_id)
        ps_result == find_best_parent_for_node(s, child_id)
        new_parent_id == ps_result.parent_id
    IN  IF new_parent_id = None
        THEN Ret(s,
                 ChangeParentResult(FALSE, child_id, old_parent_id, None,
                                    "no compatible parent found via routing"))
        ELSE IF old_parent_id = new_parent_id
        THEN Ret(s, ChangeParentResult(TRUE, child_id, old_parent_id, new_parent_id,
                                       "parent unchanged (best parent is current parent)"))
        ELSE IF ~HasNode(s, new_parent_id)
        THEN Ret(s, ChangeParentResult(FALSE, child_id, old_parent_id, None,
                                       "new parent node not found"))
        ELSE IF ~_has_capacity_for_child(s.nodes[new_parent_id], child)
        THEN Ret(IF child.node_type = CONSUMER_POINT THEN UnsupAdd(s, child_id) ELSE s,
                 ChangeParentResult(FALSE, child_id, old_parent_id, new_parent_id,
                                    "new parent has insufficient capacity"))
        ELSE AfterSetParent(set_parent(s, child_id, new_parent_id), child_id,
                            old_parent_id, new_parent_id, "parent changed via routing")

change_parent_CapacityFirst(s, child_id) ==
    IF ~HasNode(s, child_id)
    THEN Ret(s, ChangeParentResult(FALSE, child_id, None, None, "child node not found"))
    ELSE
    LET child == s.nodes[child_id]
        old_parent_id == get_parent(s, child_id)
        ps_result == find_best_parent_for_node(s, child_id)
        new_parent_id == ps_result.parent_id
    IN  IF new_parent_id = None
        THEN Ret(IF child.node_type = CONSUMER_POINT THEN UnsupAdd(s, child_id) ELSE s,
                 ChangeParentResult(FALSE, child_id, old_parent_id, None,
                                    "no compatible parent found via routing"))
        ELSE IF old_parent_id = new_parent_id
                /\ _has_capacity_for_child(s.nodes[new_parent_id], child)
        THEN Ret(s, ChangeParentResult(TRUE, child_id, old_parent_id, new_parent_id,
                                       "parent unchanged (best parent is current parent)"))
        ELSE IF ~HasNode(s, new_parent_id)
        THEN Ret(s, ChangeParentResult(FALSE, child_id, old_parent_id, None,
                                       "new parent node not found"))
        ELSE IF ~_has_capacity_for_child(s.nodes[new_parent_id], child)
        THEN Ret(IF child.node_type = CONSUMER_POINT THEN UnsupAdd(s, child_id) ELSE s,
                 ChangeParentResult(FALSE, child_id, old_parent_id, new_parent_id,
                                    "new parent has insufficient capacity"))
        ELSE AfterSetParent(set_parent(s, child_id, new_parent_id), child_id,
                            old_parent_id, new_parent_id, "parent changed via routing")

change_parent_with_routing(s, child_id) ==
    IF ~HasNode(s, child_id)
    THEN Ret(s, ChangeParentResult(FALSE, child_id, None, None, "child node not found"))
    ELSE
    LET child == s.nodes[child_id]
        old_parent_id == get_parent(s, child_id)
        ps_result == find_best_parent_for_node(s, child_id)
        new_parent_id == ps_result.parent_id
    IN  IF new_parent_id = None
        THEN Ret(IF child.node_type = CONSUMER_POINT THEN UnsupAdd(s, child_id) ELSE s,
                 ChangeParentResult(FALSE, child_id, old_parent_id, None,
                                    "no compatible parent found via routing"))
        ELSE IF old_parent_id = new_parent_id
        THEN Ret(s, ChangeParentResult(TRUE, child_id, old_parent_id, new_parent_id,
                                       "parent unchanged (best parent is current parent)"))
        ELSE IF ~HasNode(s, new_parent_id)
        THEN Ret(s, ChangeParentResult(FALSE, child_id, old_parent_id, None,
                                       "new parent node not found"))
        ELSE IF ~_has_capacity_for_child(s.nodes[new_parent_id], child)
        THEN Ret(IF child.node_type = CONSUMER_POINT THEN UnsupAdd(s, child_id) ELSE s,
                 ChangeParentResult(FALSE, child_id, old_parent_id, new_parent_id,
                                    "new parent has insufficient capacity"))
        ELSE AfterSetParent(set_parent(s, child_id, new_parent_id), child_id,
                            old_parent_id, new_parent_id, "parent changed via routing")

force_change_parent(s, child_id, new_parent_id) ==
    IF ~HasNode(s, child_id)
    THEN Ret(s, ChangeParentResult(FALSE, child_id, None, None, "child node not found"))
    ELSE
    LET child == s.nodes[child_id]
        old_parent_id == get_parent(s, child_id)
    IN  IF ~HasNode(s, new_parent_id)
        THEN Ret(s, ChangeParentResult(FALSE, child_id, old_parent_id, None,
                                       "new parent node not found"))
        ELSE IF s.nodes[new_parent_id].node_type \notin svc_allowed_parent_types_for(child.node_type)
        THEN Ret(s, ChangeParentResult(FALSE, child_id, old_parent_id, new_parent_id,
                                       "incompatible parent type"))
        ELSE IF ~_has_capacity_for_child(s.nodes[new_parent_id], child)
        THEN Ret(s, ChangeParentResult(FALSE, child_id, old_parent_id, new_parent_id,
                                       "new parent has insufficient capacity"))
        ELSE IF old_parent_id = new_parent_id
        THEN Ret(s, ChangeParentResult(TRUE, child_id, old_parent_id, new_parent_id,
                                       "parent unchanged (forced parent is current parent)"))
        ELSE AfterSetParent(set_parent(s, child_id, new_parent_id), child_id,
                            old_parent_id, new_parent_id, "parent changed by force")

\* graph.add_edge for each edge of the list, until one raises
RECURSIVE add_edges(_, _)
add_edges(s, edge_list) ==
    IF edge_list = <<>> \/ Stopped(s) THEN s
    ELSE add_edges(graph_add_edge(s, Head(edge_list)), Tail(edge_list))

add_node_with_routing(s, node_id, node, edge_list) ==
    LET s1 == add_edges(graph_add_node(s, node_id, node), edge_list)
    IN  IF Stopped(s1) THEN Ret(s1, ChangeParentResult(FALSE, node_id, None, None, "raised"))
        ELSE IF node.node_type = GENERATION_PLANT
        THEN Ret(s1, ChangeParentResult(TRUE, node_id, None, None, "plant"))
        ELSE LET res == change_parent_with_routing(s1, node_id)
             IN  IF Stopped(res.s) THEN res
                 ELSE IF ~res.r.success /\ node.node_type = CONSUMER_POINT
                 THEN Ret(UnsupAdd(res.s, node_id), res.r)
                 ELSE res

\* the for loop of handle_overload over the shuffled child list
RECURSIVE shed_loop(_, _, _)
shed_loop_NoRecompute(s, node_id, child_list) ==
    IF child_list = <<>> \/ Stopped(s) THEN s
    ELSE IF s.nodes[node_id].current_load <= s.nodes[node_id].capacity THEN s
    ELSE LET child_id == Head(child_list)
         IN  IF ~HasNode(s, child_id) THEN shed_loop(s, node_id, Tail(child_list))
             ELSE LET s1 == detach_node(s, child_id)
                      s2 == IF s.nodes[child_id].node_type = CONSUMER_POINT
                            THEN UnsupAdd(s1, child_id) ELSE s1
                  IN  shed_loop(s2, node_id, Tail(child_list))

shed_loop(s, node_id, child_list) ==
    IF child_list = <<>> \/ Stopped(s) THEN s
    ELSE IF s.nodes[node_id].current_load <= s.nodes[node_id].capacity THEN s
    ELSE LET child_id == Head(child_list)
         IN  IF ~HasNode(s, child_id) THEN shed_loop(s, node_id, Tail(child_list))
             ELSE LET s1 == detach_node(s, child_id)
                      s2 == IF s.nodes[child_id].node_type = CONSUMER_POINT
                            THEN UnsupAdd(s1, child_id) ELSE s1
                      s3 == propagate_load_upwards(
                                recompute_node_load_from_children(s2, node_id), node_id)
                  IN  shed_loop(s3, node_id, Tail(child_list))

\* shuffled: get_children(node_id) after random.shuffle
handle_overload(s, node_id, shuffled) ==
    IF ~HasNode(s, node_id) THEN s
    ELSE IF s.nodes[node_id].capacity = NoCap THEN s
    ELSE IF s.nodes[node_id].current_load <= s.nodes[node_id].capacity THEN s
    ELSE shed_loop(s, node_id, shuffled)

routing_priority(node_type) ==
    IF node_type = TRANSMISSION_SUBSTATION THEN 1
    ELSE IF node_type = DISTRIBUTION_SUBSTATION THEN 2
    ELSE IF node_type = CONSUMER_POINT THEN 3
    ELSE 99

SortByPriority_Unsorted(s, id_list) == id_list

\* list.sort(key=routing_priority): a stable sort of a list of ids of graph nodes
SortByPriority(s, id_list) ==
    LET Pick(k) == SelectSeq(id_list, LAMBDA n : routing_priority(s.nodes[n].node_type) = k)
    IN  Pick(1) \o Pick(2) \o Pick(3) \o Pick(99)

\* the reconnection loop of retry_unsupplied_routing; types: the node_type of each
\* orphan as read when the list was built
RECURSIVE retry_loop(_, _, _)
retry_loop_MarksOnly(s, orphans, types) ==
    IF orphans = <<>> \/ Stopped(s) THEN s
    ELSE LET node_id == Head(orphans)
             s1 == IF types[node_id] # CONSUMER_POINT THEN s ELSE UnsupAdd(s, node_id)
         IN  retry_loop(s1, Tail(orphans), types)

retry_loop(s, orphans, types) ==
    IF orphans = <<>> \/ Stopped(s) THEN s
    ELSE LET node_id == Head(orphans)
             res == change_parent_with_routing(s, node_id)
             s1 == IF Stopped(res.s) THEN res.s
                   ELSE IF types[node_id] # CONSUMER_POINT THEN res.s
                   ELSE IF res.r.success THEN UnsupDiscard(res.s, node_id)
                   ELSE UnsupAdd(res.s, node_id)
         IN  retry_loop(s1, Tail(orphans), types)

\* the orphans of retry_unsupplied_routing in the order in which they are attempted
retry_orphans(s) ==
    LET orphans == SelectSeq(s.order, LAMBDA n : /\ s.nodes[n].node_type # GENERATION_PLANT
                                                 /\ get_parent(s, n) = None)
    IN  SortByPriority(s, orphans)

retry_unsupplied_routing(s) ==
    LET types == [n \in DOMAIN s.nodes |-> s.nodes[n].node_type]
    IN  retry_loop(s, retry_orphans(s), types)

\* the detach loop of check_system_health over list(graph.nodes.keys())
RECURSIVE health_loop(_, _)
health_loop_NoRecompute(s, all_nodes) ==
    IF all_nodes = <<>> \/ Stopped(s) THEN s
    ELSE LET node_id == Head(all_nodes)
             parent_id == get_parent(s, node_id)
         IN  IF parent_id = None THEN health_loop(s, Tail(all_nodes))
             ELSE IF ~HasNode(s, parent_id) THEN health_loop(s, Tail(all_nodes))
             ELSE IF s.nodes[parent_id].capacity = NoCap THEN health_loop(s, Tail(all_nodes))
             ELSE IF s.nodes[parent_id].current_load > s.nodes[parent_id].capacity
             THEN LET s1 == detach_node(s, node_id)
                      s2 == IF IsConsumer(s1, node_id) THEN UnsupAdd(s1, node_id) ELSE s1
                  IN  health_loop(s2, Tail(all_nodes))
             ELSE health_loop(s, Tail(all_nodes))

health_loop(s, all_nodes) ==
    IF all_nodes = <<>> \/ Stopped(s) THEN s
    ELSE LET node_id == Head(all_nodes)
             parent_id == get_parent(s, node_id)
         IN  IF parent_id = None THEN health_loop(s, Tail(all_nodes))
             ELSE IF ~HasNode(s, parent_id) THEN health_loop(s, Tail(all_nodes))
             ELSE IF s.nodes[parent_id].capacity = NoCap THEN health_loop(s, Tail(all_nodes))
             ELSE IF s.nodes[parent_id].current_load > s.nodes[parent_id].capacity
             THEN LET s1 == detach_node(s, node_id)
                      s2 == IF IsConsumer(s1, node_id) THEN UnsupAdd(s1, node_id) ELSE s1
                      s3 == propagate_load_upwards(
                                recompute_node_load_from_children(s2, parent_id), parent_id)
                  IN  health_loop(s3, Tail(all_nodes))
             ELSE health_loop(s, Tail(all_nodes))

check_system_health(s) ==
    LET s1 == health_loop(s, s.order)
    IN  IF Stopped(s1) THEN s1 ELSE retry_unsupplied_routing(s1)

RECURSIVE add_roots(_, _)
add_roots(s, id_list) ==
    IF id_list = <<>> THEN s
    ELSE add_roots(IF s.nodes[Head(id_list)].node_type = GENERATION_PLANT
                   THEN add_root(s, Head(id_list)) ELSE s, Tail(id_list))

RECURSIVE route_each(_, _)
route_each(s, id_list) ==
    IF id_list = <<>> \/ Stopped(s) THEN s
    ELSE route_each(change_parent_with_routing(s, Head(id_list)).s, Tail(id_list))

\* the nodes_to_process of hydrate_from_physical in the order in which they are attempted
hydrate_nodes_to_process(s) ==
    LET nodes_to_process == SelectSeq(s.order,
                                      LAMBDA n : s.nodes[n].node_type # GENERATION_PLANT)
    IN  SortByPriority(s, nodes_to_process)

hydrate_from_physical(s) ==
    LET s1 == add_roots(s, s.order)
    IN  route_each(s1, hydrate_nodes_to_process(s))

update_load_after_device_change(s, consumer_id, total_power) ==
    LET s1 == agg_update_load_after_device_change(s, consumer_id, total_power)
        s2 == IF Stopped(s1) THEN s1
              ELSE IF get_parent(s1, consumer_id) # None /\ consumer_id \in s1.unsup
              THEN UnsupDiscard(s1, consumer_id) ELSE s1
    IN  IF Stopped(s2) THEN s2
        ELSE IF ~HasNode(s2, consumer_id) THEN [s2 EXCEPT !.exc = TRUE]  \* None.current_load
        ELSE s2

set_node_capacity(s, node_id, new_capacity) ==
    IF ~HasNode(s, node_id) THEN s
    ELSE [s EXCEPT !.nodes[node_id].capacity = new_capacity]

\* overload_percentage is given in hundredths (20 for 0.2). Every load of the model is
\* a whole number, so new_capacity = current_load / divisor is kept rounded down: a
\* whole load is at most the quotient exactly when it is at most its floor.
force_overload(s, node_id, overload_percentage) ==
    IF ~HasNode(s, node_id) THEN Ret(s, FALSE)
    ELSE IF s.nodes[node_id].node_type = CONSUMER_POINT THEN Ret(s, FALSE)
    ELSE LET current_load == s.nodes[node_id].current_load
             new_capacity == IF 100 + overload_percentage <= 0
                             THEN current_load * 1000        \* divisor = 0.001
                             ELSE (current_load * 100) \div (100 + overload_percentage)
         IN  Ret([s EXCEPT !.nodes[node_id].capacity = new_capacity], TRUE)

\* what remove_station_and_reattach_children does with the result of one child's routing
reattach_result(res, child_id) ==
    IF Stopped(res.s) THEN res.s
    ELSE IF ~res.r.success /\ IsConsumer(res.s, child_id)
    THEN UnsupAdd(res.s, child_id) ELSE res.s

\* the loop of remove_station_and_reattach_children over the station's children
RECURSIVE reattach_loop(_, _)
reattach_loop(s, children_ids) ==
    IF children_ids = <<>> \/ Stopped(s) THEN s
    ELSE LET child_id == Head(children_ids)
             Routed(s1) ==
                 IF ~HasNode(s1, child_id) THEN reattach_loop(s1, Tail(children_ids))
                 ELSE LET Rest(res) == reattach_loop(reattach_result(res, child_id),
                                                     Tail(children_ids))
                      IN  Then(change_parent_with_routing(s1, child_id), Rest)
         IN  Then(detach_node(s, child_id), Routed)

remove_station_and_reattach_children(s, station_id) ==
    IF ~HasNode(s, station_id) THEN s
    ELSE IF s.nodes[station_id].node_type \notin {TRANSMISSION_SUBSTATION, DISTRIBUTION_SUBSTATION}
    THEN s
    ELSE LET RemoveFromIndex(s1) == IF Stopped(s1) THEN s1 ELSE remove_node(s1, station_id)
         IN  Then(reattach_loop(s, get_children(s, station_id)), RemoveFromIndex)

\* api.logical_backend_api.api_remove_node (the device bookkeeping left out)
api_remove_node(s, node_id, remove_from_graph) ==
    IF ~HasNode(s, node_id) THEN s
    ELSE LET RemoveFromGraph(s1) ==
                 IF Stopped(s1) THEN s1
                 ELSE IF remove_from_graph THEN graph_remove_node(s1, node_id) ELSE s1
         IN  Then(IF s.nodes[node_id].node_type \in
                       {DISTRIBUTION_SUBSTATION, TRANSMISSION_SUBSTATION}
                  THEN remove_station_and_reattach_children(s, node_id)
                  ELSE remove_node(detach_node(s, node_id), node_id),
                  RemoveFromGraph)

----------------------------------------------------------------------------
\* Inputs of the calls

MaxLoad == 1

Loads == 0..MaxLoad

\* a capacity is None or a number; MaxLoad is the one number tried
Caps == {NoCap, MaxLoad}

\* an edge's length is decided by its end points: 1 between neighbouring ids, 2 otherwise
EdgeLength(a, b) == IF a - b = 1 \/ b - a = 1 THEN 1 ELSE 2

\* the nodes a caller builds: stations come without load, consumers without capacity
NodeValues ==
    {Node(GENERATION_PLANT, NoCap, 0)}
    \cup {Node(t, c, 0) : t \in {TRANSMISSION_SUBSTATION, DISTRIBUTION_SUBSTATION}, c \in Caps}
    \cup {Node(CONSUMER_POINT, NoCap, w) : w \in Loads}

\* the ids of a set in ascending order
RECURSIVE SortedSeq(_)
SortedSeq(S) ==
    IF S = {} THEN <<>>
    ELSE LET m == CHOOSE x \in S : \A y \in S : x <= y
         IN  <<m>> \o SortedSeq(S \ {m})

\* the edge list handed to add_node_with_routing: one edge to each of nbrs
EdgesTo(node_id, nbrs) ==
    LET l == SortedSeq(nbrs)
    IN  [i \in 1..Len(l) |-> [a |-> node_id, b |-> l[i], length |-> EdgeLength(node_id, l[i])]]

\* the physical layouts tried over the nodes D: every pair linked, or neighbouring ids only
Layouts(D) == {{k \in D \X D : k[1] < k[2]}, {k \in D \X D : k[2] - k[1] = 1}}

\* the call changed nothing and returned
Same(s) ==
    /\ s.nodes = nodes /\ s.order = nodes_order /\ s.edges = edges
    /\ s.parent = _parent /\ s.children = _children
    /\ s.unsup = unsupplied_consumers /\ ~s.hung

\* a call of the service that leaves the program in s
Call(op, s, budget) ==
    /\ calls < budget
    /\ \E after \in {s} :
           /\ Install(after)
           /\ last' = IF Same(after) THEN last ELSE op
           /\ calls' = IF Same(after) THEN calls ELSE calls + 1

----------------------------------------------------------------------------
\* The service after construction over a physical graph: empty index, nothing unsupplied

NewService ==
    /\ _parent = EmptyDict
    /\ _children = EmptyDict
    /\ unsupplied_consumers = {}
    /\ log_buffer = <<>>
    /\ logged = <<>>
    /\ delivered = <<>>
    /\ last = "init"
    /\ calls = 0
    /\ pc = "idle"

Init ==
    /\ \E D \in SUBSET Ids :
           /\ nodes \in [D -> NodeValues]
           /\ nodes_order = SortedSeq(D)
           /\ \E E \in Layouts(D) : edges = [k \in E |-> EdgeLength(k[1], k[2])]
    /\ NewService

\* hydrate_from_physical is the cold-start bootstrap: it runs on the new service only
Hydrate(budget) ==
    /\ pc = "idle"
    /\ DOMAIN _parent = {} /\ DOMAIN _children = {} /\ unsupplied_consumers = {}
    /\ Call("hydrate", hydrate_from_physical(Cur), budget)

ChangeParent(child_id, budget) ==
    /\ pc = "idle"
    /\ Call("change_parent", change_parent_with_routing(Cur, child_id).s, budget)

ForceAttach(child_id, new_parent_id, budget) ==
    /\ pc = "idle"
    /\ Call("force_attach", force_change_parent(Cur, child_id, new_parent_id).s, budget)

Attach(node_id, node, nbrs, budget) ==
    /\ pc = "idle"
    /\ Call("attach", add_node_with_routing(Cur, node_id, node, EdgesTo(node_id, nbrs)).s, budget)

RemoveNode(node_id, remove_from_graph, budget) ==
    /\ pc = "idle"
    /\ Call("remove", api_remove_node(Cur, node_id, remove_from_graph), budget)

HandleOverload(node_id, shuffled, budget) ==
    /\ pc = "idle"
    /\ Call("handle_overload", handle_overload(Cur, node_id, shuffled), budget)

CheckHealth(budget) ==
    /\ pc = "idle"
    /\ Call("check_system_health", check_system_health(Cur), budget)

Retry(budget) ==
    /\ pc = "idle"
    /\ Call("retry_unsupplied", retry_unsupplied_routing(Cur), budget)

UpdateLoad(consumer_id, total_power, budget) ==
    /\ pc = "idle"
    /\ Call("update_load", update_load_after_device_change(Cur, consumer_id, total_power), budget)

SetCapacity(node_id, new_capacity, budget) ==
    /\ pc = "idle"
    /\ Call("set_capacity", set_node_capacity(Cur, node_id, new_capacity), budget)

\* the orders random.shuffle can leave the children of node_id in
Shuffles(node_id) == Perms(Range(get_children(Cur, node_id)))

\* a new node is linked to every node of the graph
Neighbours(node_id) == DOMAIN nodes \ {node_id}

\* the nodes of a type
OfType(node_type) == {n \in DOMAIN nodes : nodes[n].node_type = node_type}

Stations == {n \in DOMAIN nodes : nodes[n].node_type # CONSUMER_POINT}

Next ==
    \/ Hydrate(MaxCalls)
    \/ \E c \in Ids : ChangeParent(c, MaxCalls)
    \/ \E c \in Ids, p \in Ids : ForceAttach(c, p, MaxCalls)
    \/ \E n \in Ids, v \in NodeValues : Attach(n, v, Neighbours(n), MaxCalls)
    \/ \E n \in Ids, g \in BOOLEAN : RemoveNode(n, g, MaxCalls)
    \/ \E n \in Ids : \E o \in Shuffles(n) : HandleOverload(n, o, MaxCalls + 1)
    \/ CheckHealth(MaxCalls)
    \/ Retry(MaxCalls)
    \/ \E c \in Ids, w \in Loads : UpdateLoad(c, w, MaxCalls)
    \/ \E n \in Stations, c \in Caps : SetCapacity(n, c, MaxCalls)

Spec == Init /\ [][Next]_vars

\* the calls that attach, detach, move and update loads: no removal
NextLoads ==
    \/ Hydrate(MaxCalls)
    \/ \E c \in Ids : ChangeParent(c, MaxCalls)
    \/ \E c \in Ids, p \in Ids : ForceAttach(c, p, MaxCalls)
    \/ \E n \in Ids, v \in NodeValues : Attach(n, v, Neighbours(n), MaxCalls)
    \/ \E n \in Ids : \E o \in Shuffles(n) : HandleOverload(n, o, MaxCalls + 1)
    \/ \E c \in Ids, w \in Loads : UpdateLoad(c, w, MaxCalls)
    \/ \E n \in Stations, c \in Caps : SetCapacity(n, c, MaxCalls)

SpecLoads == Init /\ [][NextLoads]_vars

----------------------------------------------------------------------------
\* BPlusIndex on its own: its five mutators called in any order with any ids

InitForest ==
    /\ nodes = EmptyDict
    /\ nodes_order = <<>>
    /\ edges = EmptyDict
    /\ NewService

\* a call of the index that leaves the program in s
IndexCall(s) ==
    /\ Install(s)
    /\ UNCHANGED <<last, calls>>

AddRoot(node_id) ==
    /\ pc = "idle"
    /\ IndexCall(add_root(Cur, node_id))

SetParent(child_id, parent_id) ==
    /\ pc = "idle"
    /\ IndexCall(set_parent(Cur, child_id, parent_id))

MoveSubtree(subtree_root_id, new_parent_id) ==
    /\ pc = "idle"
    /\ IndexCall(move_subtree(Cur, subtree_root_id, new_parent_id))

Detach(node_id) ==
    /\ pc = "idle"
    /\ IndexCall(detach_node(Cur, node_id))

Remove(node_id) ==
    /\ pc = "idle"
    /\ IndexCall(remove_node(Cur, node_id))

NextForest ==
    \/ \E n \in Ids : AddRoot(n)
    \/ \E c \in Ids, p \in Ids \cup {None} : SetParent(c, p)
    \/ \E r \in Ids, p \in Ids \cup {None} : MoveSubtree(r, p)
    \/ \E n \in Ids : Detach(n)
    \/ \E n \in Ids : Remove(n)

SpecForest == InitForest /\ [][NextForest]_vars

----------------------------------------------------------------------------
\* The service over the graphs of the specification's scenarios A, B and C, with the
\* loads and capacities they name

ScenarioIds == 1..(NumIds + 1)

ScenarioCaps == {NoCap, 40, 50, 100}

ScenarioLoads == {10, 25, 30, 45}

\* A: Plant - TS(cap 100) - DS(cap 50), no consumer yet
ScenarioA ==
    [nodes |-> (1 :> Node(GENERATION_PLANT, NoCap, 0)
                @@ 2 :> Node(TRANSMISSION_SUBSTATION, 100, 0)
                @@ 3 :> Node(DISTRIBUTION_SUBSTATION, 50, 0)),
     links |-> {<<1, 2>>, <<2, 3>>}]

\* B: DS(cap 50) linked to a consumer of load 45; a consumer of load 10 not linked
ScenarioB ==
    [nodes |-> (1 :> Node(DISTRIBUTION_SUBSTATION, 50, 0)
                @@ 2 :> Node(CONSUMER_POINT, NoCap, 45)
                @@ 3 :> Node(CONSUMER_POINT, NoCap, 10)),
     links |-> {<<1, 2>>}]

\* C: a DS linked to consumers of loads 10, 10 and 25; its capacity is set later
ScenarioC ==
    [nodes |-> (1 :> Node(DISTRIBUTION_SUBSTATION, NoCap, 0)
                @@ 2 :> Node(CONSUMER_POINT, NoCap, 10)
                @@ 3 :> Node(CONSUMER_POINT, NoCap, 10)
                @@ 4 :> Node(CONSUMER_POINT, NoCap, 25)),
     links |-> {<<1, 2>>, <<1, 3>>, <<1, 4>>}]

InitScenario ==
    /\ \E g \in {ScenarioA, ScenarioB, ScenarioC} :
           /\ nodes = g.nodes
           /\ nodes_order = SortedSeq(DOMAIN g.nodes)
           /\ edges = [k \in g.links |-> EdgeLength(k[1], k[2])]
    /\ NewService

\* the calls of the scenarios; attach brings a new consumer
NextScenario ==
    \/ Hydrate(MaxCalls + 1)
    \/ \E c \in ScenarioIds : ChangeParent(c, MaxCalls + 1)
    \/ \E c \in ScenarioIds, p \in ScenarioIds : ForceAttach(c, p, MaxCalls + 1)
    \/ \E n \in ScenarioIds \ DOMAIN nodes, w \in ScenarioLoads :
           Attach(n, Node(CONSUMER_POINT, NoCap, w), Neighbours(n), MaxCalls + 1)
    \/ \E n \in ScenarioIds : \E o \in Shuffles(n) : HandleOverload(n, o, MaxCalls + 1)
    \/ \E c \in ScenarioIds, w \in ScenarioLoads : UpdateLoad(c, w, MaxCalls + 1)
    \/ \E n \in Stations, c \in ScenarioCaps : SetCapacity(n, c, MaxCalls + 1)

SpecScenario == InitScenario /\ [][NextScenario]_vars

----------------------------------------------------------------------------
\* The message log of the service on its own. The texts the operations of the service
\* append are not followed in the other specifications: there the buffer stays as it
\* is, and no other state depends on it.

MaxLog == 4

Messages == {"ALERTA", "Corte de carga"}

log(buffer, message) == Append(buffer, message)

consume_logs_NoClear(buffer) == [logs |-> buffer, log_buffer |-> buffer]

\* logs = list(self.log_buffer), then self.log_buffer.clear()
consume_logs(buffer) == [logs |-> buffer, log_buffer |-> <<>>]

LogCall(op) ==
    /\ pc = "idle"
    /\ last' = op
    /\ UNCHANGED <<nodes, nodes_order, edges, _parent, _children, unsupplied_consumers, calls, pc>>

Log(message) ==
    /\ Len(logged) < MaxLog
    /\ log_buffer' = log(log_buffer, message)
    /\ logged' = Append(logged, message)
    /\ UNCHANGED delivered
    /\ LogCall("log")

ConsumeLogs ==
    /\ \E r \in {consume_logs(log_buffer)} :
           /\ log_buffer' = r.log_buffer
           /\ delivered' = delivered \o r.logs
    /\ UNCHANGED logged
    /\ LogCall("consume_logs")

NextLog ==
    \/ \E m \in Messages : Log(m)
    \/ ConsumeLogs

SpecLog == InitForest /\ [][NextLog]_vars

----------------------------------------------------------------------------
\* PowerGridBackend, the facade: its calls end with get_tree_snapshot, which refreshes
\* the leaf loads from the devices and runs the recovery sweep. The power the devices
\* of a consumer draw at the time of the refresh is an input: new_power[c].

\* the loop of update_devices_and_nodes_loads over devices_by_node
RECURSIVE refresh_loop(_, _, _)
refresh_loop(s, id_list, new_power) ==
    IF id_list = <<>> \/ Stopped(s) THEN s
    ELSE LET node_id == Head(id_list)
         IN  IF ~IsConsumer(s, node_id) THEN refresh_loop(s, Tail(id_list), new_power)
             ELSE refresh_loop(update_load_after_device_change(s, node_id, new_power[node_id]),
                               Tail(id_list), new_power)

update_devices_and_nodes_loads(s, new_power) == refresh_loop(s, s.order, new_power)

get_tree_snapshot(s, new_power) ==
    LET s1 == update_devices_and_nodes_loads(s, new_power)
    IN  IF Stopped(s1) THEN s1 ELSE retry_unsupplied_routing(s1)

facade_force_overload(s, node_id, overload_percentage, shuffled, new_power) ==
    LET s1 == force_overload(s, node_id, overload_percentage).s
        s2 == handle_overload(s1, node_id, shuffled)
    IN  IF Stopped(s2) THEN s2 ELSE get_tree_snapshot(s2, new_power)

\* logic.capacity_analysis. Only the nodes iter_preorder() lists are given a capacity.
\* 13.0 * total_consumers * 0.75 is kept rounded down, as every capacity of the model
\* is a whole number compared with whole loads; (39 * k) \div 4 is that floor.
initialize_capacities(s) ==
    LET total_consumers == Cardinality({n \in DOMAIN s.nodes : s.nodes[n].node_type = CONSUMER_POINT})
        listed == Range(iter_preorder(s)) \cap DOMAIN s.nodes
        capacity(n) ==
            CASE s.nodes[n].node_type = CONSUMER_POINT -> NoCap
              [] s.nodes[n].node_type = DISTRIBUTION_SUBSTATION -> 13 * (Len(get_children(s, n)) + 1)
              [] s.nodes[n].node_type = TRANSMISSION_SUBSTATION -> (39 * total_consumers) \div 4
              [] s.nodes[n].node_type = GENERATION_PLANT -> 13 * total_consumers
    IN  [s EXCEPT !.nodes = [n \in DOMAIN s.nodes |->
                                IF n \in listed THEN [s.nodes[n] EXCEPT !.capacity = capacity(n)]
                                ELSE s.nodes[n]]]

InitializeCapacities(budget) ==
    /\ pc = "idle"
    /\ Call("initialize_capacities", initialize_capacities(Cur), budget)

\* the percentages force_overload is called with, in hundredths
\* _compute_status of the tree snapshot for the node node_id; the loads and capacities
\* are whole numbers, so ratio < 0.8 is current_load * 5 < capacity * 4
_compute_status(s, node_id, unsupplied_ids) ==
    LET node == s.nodes[node_id]
    IN  IF node.node_type = CONSUMER_POINT /\ node_id \in unsupplied_ids THEN "UNSUPPLIED"
        ELSE IF node.capacity = NoCap THEN "NORMAL"
        ELSE IF node.capacity <= 0 THEN "NORMAL"
        ELSE IF node.current_load * 5 < node.capacity * 4 THEN "NORMAL"
        ELSE IF node.current_load <= node.capacity THEN "WARNING"
        ELSE "OVERLOADED"

Pcts == {-100, 0, 50}

\* the powers the devices of the consumers may draw at a refresh
Powers == [OfType(CONSUMER_POINT) -> Loads]

GetTreeSnapshot(new_power, budget) ==
    /\ pc = "idle"
    /\ Call("get_tree_snapshot", get_tree_snapshot(Cur, new_power), budget)

ForceOverload(node_id, overload_percentage, shuffled, new_power, budget) ==
    /\ pc = "idle"
    /\ Call("force_overload",
            facade_force_overload(Cur, node_id, overload_percentage, shuffled, new_power), budget)

NextFacade ==
    \/ Hydrate(MaxCalls)
    \/ InitializeCapacities(MaxCalls)
    \/ \E w \in Powers : GetTreeSnapshot(w, MaxCalls)
    \/ \E n \in Ids, pct \in Pcts, w \in Powers :
           \E o \in Shuffles(n) : ForceOverload(n, pct, o, w, MaxCalls)

SpecFacade == Init /\ [][NextFacade]_vars

----------------------------------------------------------------------------
\* The cold start alone: hydrate_from_physical on any graph of up to NumIds + 1 nodes

InitHydrate ==
    /\ \E D \in SUBSET ScenarioIds :
           /\ nodes \in [D -> NodeValues]
           /\ nodes_order = SortedSeq(D)
           /\ \E E \in Layouts(D) : edges = [k \in E |-> EdgeLength(k[1], k[2])]
    /\ NewService

NextHydrate == Hydrate(MaxCalls)

SpecHydrate == InitHydrate /\ [][NextHydrate]_vars

----------------------------------------------------------------------------
\* Properties

\* following parent links from cur leads to target within fuel steps
RECURSIVE ReachesUp(_, _, _)
ReachesUp(cur, target, fuel) ==
    LET p == DictGet(_parent, cur, None)
    IN  IF p = None \/ fuel = 0 THEN FALSE
        ELSE IF p = target THEN TRUE
        ELSE ReachesUp(p, target, fuel - 1)

OwnAncestor(n) == ReachesUp(n, n, Cardinality(DOMAIN _parent))

\* C1 (forest invariant): in every state reachable by the service's operations, called
\* with any arguments, no node is its own ancestor: following parent links from any
\* node terminates and passes each node at most once.
C1_ForestInvariant == \A n \in DOMAIN _parent : ~OwnAncestor(n)

\* C2 (single parent): in every state reachable by add_root, set_parent, move_subtree,
\* detach_node and remove_node, a node n is in get_children(get_parent(n)) if and only
\* if get_parent(n) is not None.
C2_SingleParent ==
    \A n \in Ids :
        (n \in Range(get_children(Cur, get_parent(Cur, n)))) <=> (get_parent(Cur, n) # None)

\* a node with a parent that lists it, while another node is listed by two nodes: the
\* second kept its place in an old list when add_root made it a root
C2_Witness ==
    /\ \E n \in Ids : get_parent(Cur, n) # None
                      /\ n \in Range(get_children(Cur, get_parent(Cur, n)))
    /\ \E m \in Ids : \E p \in Ids, q \in Ids :
           /\ p # q
           /\ m \in Range(get_children(Cur, p))
           /\ m \in Range(get_children(Cur, q))

\* the load of node_id is the sum of the loads of its children
Consistent(s, node_id) == s.nodes[node_id].current_load = SumSeq(ChildLoads(s, node_id))

\* C3 (load consistency): after any sequence of attach, shedding, change of parent and
\* leaf-load update, every node that has at least one child has current_load equal to
\* the sum of its children's current_load.
C3_LoadConsistency ==
    pc = "idle" =>
        \A n \in DOMAIN nodes : get_children(Cur, n) # <<>> => Consistent(Cur, n)

\* C4 (capacity post-condition): whenever handle_overload(n) returns for a node n with
\* a capacity, in any order of shedding, either current_load(n) <= capacity(n) or n has
\* no children left.
C4_CapacityPostCondition ==
    pc = "idle" =>
        \A n \in DOMAIN nodes : \A o \in Shuffles(n) :
            LET s == handle_overload(Cur, n, o)
            IN  (nodes[n].capacity # NoCap /\ ~Stopped(s)) =>
                    \/ s.nodes[n].current_load <= s.nodes[n].capacity
                    \/ get_children(s, n) = <<>>

\* handle_overload has just shed from a node, which is within its capacity again and
\* keeps a child
C4_Witness ==
    /\ last = "handle_overload"
    /\ pc = "idle"
    /\ \E n \in DOMAIN nodes :
           /\ nodes[n].capacity # NoCap
           /\ nodes[n].current_load <= nodes[n].capacity
           /\ get_children(Cur, n) # <<>>
           /\ \E c \in unsupplied_consumers : get_parent(Cur, c) = None

\* the call left every parent link, every child list and every load as they are now
ForestAndLoadsKept(s) ==
    /\ s.parent = _parent
    /\ s.children = _children
    /\ DOMAIN s.nodes = DOMAIN nodes
    /\ \A n \in DOMAIN nodes : s.nodes[n].current_load = nodes[n].current_load

\* C5 (failure atomicity): whenever change_parent_with_routing or force_change_parent
\* returns a failure, for whatever reason, every parent link, every child list and
\* every node's current_load are as they were before the call.
C5_FailureAtomicity ==
    pc = "idle" =>
        \A c \in ScenarioIds :
            /\ LET a == change_parent_with_routing(Cur, c)
               IN  ~a.r.success => ForestAndLoadsKept(a.s)
            /\ \A p \in ScenarioIds :
                   LET b == force_change_parent(Cur, c, p)
                   IN  ~b.r.success => ForestAndLoadsKept(b.s)

\* Scenario B: the DS of capacity 50 carries the load 45 of its consumer, and the
\* forced attach of the consumer of load 10 is refused for capacity
C5_Witness ==
    /\ last = "hydrate"
    /\ nodes = [ScenarioB.nodes EXCEPT ![1].current_load = 45]
    /\ get_children(Cur, 1) = <<2>>
    /\ LET b == force_change_parent(Cur, 3, 1)
       IN  /\ ~b.r.success
           /\ b.r.reason = "new parent has insufficient capacity"
           /\ b.s.nodes[1].current_load = 45

\* the nodes linked to one of `reached` by a physical path that avoids the node `without`
RECURSIVE Connected(_, _, _)
Connected(s, reached, without) ==
    LET step == {m \in DOMAIN s.nodes \ {without} :
                    \E n \in reached : EdgeId(n, m) \in DOMAIN s.edges}
    IN  IF step \subseteq reached THEN reached ELSE Connected(s, reached \cup step, without)

IsDS(s, node_id) == HasNode(s, node_id) /\ s.nodes[node_id].node_type = DISTRIBUTION_SUBSTATION

\* the distribution substations other than d that can take all of kids: linked to each
\* of them by a path avoiding d, and with capacity for their loads together
Alternates(d, kids) ==
    {a \in DOMAIN nodes \ {d} :
        /\ IsDS(Cur, a)
        /\ \A k \in kids : a \in Connected(Cur, {k}, d)
        /\ \/ nodes[a].capacity = NoCap
           \/ nodes[a].current_load + SumSeq([i \in 1..Len(get_children(Cur, d)) |->
                                                LoadOf(Cur, get_children(Cur, d)[i])])
                  <= nodes[a].capacity}

\* C6 (Scenario D, station removal): removing a distribution substation d whose
\* children are consumers reroutes every child: if another distribution substation
\* with enough capacity is physically reachable, every former child ends up attached to
\* a distribution substation other than d and none of them is unsupplied; if the graph
\* holds no other distribution substation, every former child is in the unsupplied set.
C6_StationRemoval ==
    pc = "idle" =>
        \A d \in DOMAIN nodes : \A g \in BOOLEAN :
            LET kids == Range(get_children(Cur, d))
                s == api_remove_node(Cur, d, g)
            IN  (/\ IsDS(Cur, d)
                 /\ kids # {}
                 /\ \A k \in kids : IsConsumer(Cur, k)
                 /\ ~Stopped(s)) =>
                    /\ Alternates(d, kids) # {} =>
                           \A k \in kids : /\ get_parent(s, k) # None
                                           /\ get_parent(s, k) # d
                                           /\ IsDS(s, get_parent(s, k))
                                           /\ k \notin s.unsup
                    /\ (\A a \in DOMAIN nodes \ {d} : ~IsDS(Cur, a)) =>
                           \A k \in kids : k \in s.unsup

\* C7 (idempotence of recovery): from every reachable state, retry_unsupplied_routing
\* called twice in a row leaves the same unsupplied set after the second call as
\* after the first.
C7_RetryIdempotent ==
    pc = "idle" =>
        LET s1 == retry_unsupplied_routing(Cur)
            s2 == retry_unsupplied_routing(s1)
        IN  (~Stopped(s1) /\ ~Stopped(s2)) => s2.unsup = s1.unsup

\* the table of the specification: the types a parent of a child of this type may have
AllowedParentTypes(child_type) ==
    CASE child_type = CONSUMER_POINT -> {DISTRIBUTION_SUBSTATION}
      [] child_type = DISTRIBUTION_SUBSTATION -> {TRANSMISSION_SUBSTATION}
      [] child_type = TRANSMISSION_SUBSTATION -> {GENERATION_PLANT}
      [] child_type = GENERATION_PLANT -> {}

\* C8 (type compatibility): for every child and every requested parent of the graph,
\* force_change_parent answers a request outside AllowedParentTypes with the failure
\* "incompatible parent type" and changes nothing, and whenever it gives the child
\* another parent, that parent is the requested one and its type is allowed.
C8_TypeCompatibility ==
    pc = "idle" =>
        \A c \in DOMAIN nodes, p \in DOMAIN nodes :
            LET b == force_change_parent(Cur, c, p)
                allowed == nodes[p].node_type \in AllowedParentTypes(nodes[c].node_type)
            IN  /\ ~allowed => /\ ~b.r.success
                               /\ b.r.reason = "incompatible parent type"
                               /\ b.s = Cur
                /\ get_parent(b.s, c) # get_parent(Cur, c) =>
                       /\ get_parent(b.s, c) = p
                       /\ allowed

\* force_change_parent has just given a child a parent of an allowed type, and a
\* request to put the same child under another node is refused for its type
C8_Witness ==
    /\ last = "force_attach"
    /\ pc = "idle"
    /\ \E c \in DOMAIN nodes, q \in DOMAIN nodes :
           /\ get_parent(Cur, c) # None
           /\ nodes[get_parent(Cur, c)].node_type \in AllowedParentTypes(nodes[c].node_type)
           /\ q # c
           /\ force_change_parent(Cur, c, q).r.reason = "incompatible parent type"

\* the load left under a node once the first k children of the order o are shed
LoadAfter(o, k) == SumSeq([i \in 1..(Len(o) - k) |-> LoadOf(Cur, o[k + i])])

\* how many children of the order o are shed from a node of this capacity: as few as
\* bring the recomputed load within the capacity, at least one
ShedCount(o, capacity) ==
    CHOOSE k \in 1..Len(o) :
        /\ LoadAfter(o, k) <= capacity \/ k = Len(o)
        /\ \A j \in 1..(k - 1) : LoadAfter(o, j) > capacity

\* C9 (Scenario C, ordered shedding): handle_overload on an overloaded node sheds its
\* children in the shuffled order, one at a time, recomputing the node's load after
\* each and stopping as soon as load <= capacity; every consumer shed is unsupplied;
\* with capacity 40 and children of loads 10, 10 and 25 exactly one child is shed,
\* whatever the order.
C9_OrderedShedding ==
    pc = "idle" =>
        \A n \in DOMAIN nodes : \A o \in Shuffles(n) :
            (/\ nodes[n].capacity # NoCap
             /\ nodes[n].current_load > nodes[n].capacity
             /\ o # <<>>) =>
                LET s == handle_overload(Cur, n, o)
                    k == ShedCount(o, nodes[n].capacity)
                    shed == {o[i] : i \in 1..k}
                IN  /\ ~Stopped(s)
                    /\ Range(get_children(s, n)) = Range(o) \ shed
                    /\ \A c \in shed : /\ get_parent(s, c) = None
                                       /\ IsConsumer(Cur, c) => c \in s.unsup
                    /\ s.nodes[n].current_load = LoadAfter(o, k)
                    /\ (/\ nodes[n].capacity = 40
                        /\ Len(o) = 3
                        /\ \E i \in 1..3 :
                               /\ LoadOf(Cur, o[i]) = 25
                               /\ \A j \in (1..3) \ {i} : LoadOf(Cur, o[j]) = 10) =>
                           Cardinality(shed) = 1

\* Scenario C after handle_overload: the DS of capacity 40 has shed one of its three
\* consumers, which is unsupplied, and carries the load of the two it keeps
C9_Witness ==
    /\ last = "handle_overload"
    /\ nodes[1].capacity = 40
    /\ \A c \in {2, 3, 4} : nodes[c] = ScenarioC.nodes[c]
    /\ \E c \in {2, 3, 4} :
           /\ get_parent(Cur, c) = None
           /\ unsupplied_consumers = {c}
           /\ Range(get_children(Cur, 1)) = {2, 3, 4} \ {c}
           /\ nodes[1].current_load = 45 - nodes[c].current_load

\* node_id and its ancestors in the forest of s
RECURSIVE UpSet(_, _, _)
UpSet(s, node_id, seen) ==
    IF node_id = None \/ node_id \in seen THEN seen
    ELSE UpSet(s, get_parent(s, node_id), seen \cup {node_id})

\* C10 (Scenario A, attach propagates load): when a new consumer of load L is attached
\* by routing and the distribution substation the routing selects has capacity for it
\* and, like each of its ancestors, a load equal to the sum of its children's loads,
\* the consumer ends up under that substation, supplied, and the load of the
\* substation and of every one of its ancestors has grown by exactly L.
C10_AttachPropagatesLoad ==
    pc = "idle" =>
        \A n \in ScenarioIds \ DOMAIN nodes, L \in ScenarioLoads :
            LET node == Node(CONSUMER_POINT, NoCap, L)
                edge_list == EdgesTo(n, Neighbours(n))
                s == add_node_with_routing(Cur, n, node, edge_list).s
                d == find_best_parent_for_node(add_edges(graph_add_node(Cur, n, node), edge_list),
                                               n).parent_id
            IN  (/\ d # None
                 /\ \A a \in UpSet(Cur, d, {}) : HasNode(Cur, a) /\ Consistent(Cur, a)
                 /\ _has_capacity_for_child(nodes[d], node)) =>
                    /\ ~Stopped(s)
                    /\ get_parent(s, n) = d
                    /\ IsDS(s, d)
                    /\ n \notin s.unsup
                    /\ \A a \in UpSet(Cur, d, {}) :
                           s.nodes[a].current_load = nodes[a].current_load + L

\* Scenario A after the attach: the consumer of load 30 is under the DS, and the DS and
\* the TS above it carry 30
C10_Witness ==
    /\ last = "attach"
    /\ DOMAIN nodes = 1..4
    /\ nodes[4] = Node(CONSUMER_POINT, NoCap, 30)
    /\ \A a \in 1..3 : nodes[a] = [ScenarioA.nodes[a] EXCEPT !.current_load = 30]
    /\ get_parent(Cur, 4) = 3 /\ get_parent(Cur, 3) = 2 /\ get_parent(Cur, 2) = 1
    /\ unsupplied_consumers = {}

\* every station can take the load of all consumers together
NoCapacityBlocks ==
    LET cs == SortedSeq(OfType(CONSUMER_POINT))
        total == SumSeq([i \in 1..Len(cs) |-> nodes[cs[i]].current_load])
    IN  \A n \in DOMAIN nodes : nodes[n].capacity = NoCap \/ total <= nodes[n].capacity

\* every node that is no plant is linked by a physical path to a node of a type
\* allowed as its parent
EveryNodeReachesAParent ==
    \A n \in DOMAIN nodes \ OfType(GENERATION_PLANT) :
        \E p \in Connected(Cur, {n}, None) \ {n} :
            nodes[p].node_type \in AllowedParentTypes(nodes[n].node_type)

\* C11 (hydration connectivity, Scenario E): after hydrate_from_physical on a graph in
\* which every non-plant node has a physical path to a node of its allowed parent type
\* and no capacity blocks an attach, every non-plant node has a parent, every root is
\* a plant, each consumer's chain of ancestors reaches a plant, and nothing is
\* unsupplied.
C11_HydrationConnectivity ==
    (last = "hydrate" /\ EveryNodeReachesAParent /\ NoCapacityBlocks) =>
        /\ pc = "idle"
        /\ \A n \in DOMAIN nodes \ OfType(GENERATION_PLANT) : get_parent(Cur, n) \in DOMAIN nodes
        /\ \A r \in get_roots(Cur) : r \in OfType(GENERATION_PLANT)
        /\ \A c \in OfType(CONSUMER_POINT) :
               UpSet(Cur, c, {}) \cap OfType(GENERATION_PLANT) # {}
        /\ unsupplied_consumers = {}

\* Scenario E after hydrate: one plant, one TS, one DS and one consumer, the consumer
\* under the DS under the TS under the plant
C11_Witness ==
    /\ last = "hydrate"
    /\ EveryNodeReachesAParent /\ NoCapacityBlocks
    /\ \E pl \in OfType(GENERATION_PLANT), ts \in OfType(TRANSMISSION_SUBSTATION),
          ds \in OfType(DISTRIBUTION_SUBSTATION), c \in OfType(CONSUMER_POINT) :
           /\ DOMAIN nodes = {pl, ts, ds, c}
           /\ get_parent(Cur, c) = ds /\ get_parent(Cur, ds) = ts /\ get_parent(Cur, ts) = pl
           /\ get_roots(Cur) = {pl}
           /\ nodes[c].current_load = MaxLoad /\ nodes[pl].current_load = MaxLoad
           /\ unsupplied_consumers = {}

\* C12 (the unsupplied set is sound): between operations every id in the unsupplied
\* set is the id of a consumer that exists in the physical graph and has no parent in
\* the forest.
C12_UnsuppliedSound ==
    pc = "idle" =>
        \A c \in unsupplied_consumers :
            /\ c \in DOMAIN nodes
            /\ nodes[c].node_type = CONSUMER_POINT
            /\ get_parent(Cur, c) = None

\* the call returned without raising and left graph, forest and unsupplied set alone
Untouched(s) == Same(s) /\ ~s.exc

\* C13 (NotFound is never fatal): every entry point called with a node id that is not
\* in the graph returns without raising, reports failure or does nothing, and leaves
\* the graph, the forest and the unsupplied set as they were: routing, forced attach
\* (absent child or absent parent), overload handling, capacity change, forced
\* overload, station removal, the leaf-load update, and an attach whose edge has an
\* absent end point.
C13_NotFoundNeverFatal ==
    pc = "idle" =>
        \A a \in Ids \ DOMAIN nodes :
            /\ LET res == change_parent_with_routing(Cur, a)
               IN  Untouched(res.s) /\ ~res.r.success
            /\ \A p \in Ids :
                   LET res == force_change_parent(Cur, a, p)
                   IN  Untouched(res.s) /\ ~res.r.success
            /\ \A c \in DOMAIN nodes :
                   LET res == force_change_parent(Cur, c, a)
                   IN  Untouched(res.s) /\ ~res.r.success
            /\ Untouched(handle_overload(Cur, a, <<>>))
            /\ \A c \in Caps : Untouched(set_node_capacity(Cur, a, c))
            /\ \A pct \in Pcts :
                   LET res == force_overload(Cur, a, pct)
                   IN  Untouched(res.s) /\ ~res.r
            /\ Untouched(remove_station_and_reattach_children(Cur, a))
            /\ \A g \in BOOLEAN : Untouched(api_remove_node(Cur, a, g))
            /\ \A w \in Loads : Untouched(update_load_after_device_change(Cur, a, w))
            /\ \A b \in Ids \ {a}, node \in NodeValues :
                   Untouched(add_node_with_routing(Cur, b, node, EdgesTo(b, {a})).s)

\* node_id is no plant, has a parent that is a node of the graph, and that parent is
\* linked to it by a physical path
Detachable(node_id) ==
    /\ node_id \in DOMAIN nodes \ OfType(GENERATION_PLANT)
    /\ get_parent(Cur, node_id) \in DOMAIN nodes
    /\ get_parent(Cur, node_id) \in Connected(Cur, {node_id}, None)

\* index.detach_node(node_id), nothing else, then the next retry_unsupplied_routing()
DetachThenRetry(node_id) == retry_unsupplied_routing(detach_node(Cur, node_id))

Candidates(node_id) ==
    {p \in Connected(Cur, {node_id}, None) \ {node_id} :
        nodes[p].node_type \in AllowedParentTypes(nodes[node_id].node_type)}

\* the nodes the recovery sweep will try to route: no plant and no parent
Orphans(s) == {n \in DOMAIN s.nodes : s.nodes[n].node_type # GENERATION_PLANT /\ get_parent(s, n) = None}

C15_LeafUpdatePropagates ==
    pc = "idle" =>
        \A c \in OfType(CONSUMER_POINT), w \in Loads \cup ScenarioLoads :
            get_parent(Cur, c) # None =>
                LET s == update_load_after_device_change(Cur, c, w)
                    d == w - nodes[c].current_load
                IN  /\ ~Stopped(s)
                    /\ \A a \in UpSet(Cur, c, {}) \cap DOMAIN nodes :
                           s.nodes[a].current_load = nodes[a].current_load + d

Overloaded(s, node_id) ==
    /\ s.nodes[node_id].capacity # NoCap
    /\ s.nodes[node_id].current_load > s.nodes[node_id].capacity

\* C16 (a forced overload is resolved by shedding): after the facade's
\* force_overload(n, pct) with pct > 0 on a station n that has children, the leaf-load
\* refresh and the recovery sweep it runs before it returns included, n is not
\* overloaded.
C16_ForcedOverloadResolved ==
    pc = "idle" =>
        \A n \in Stations, pct \in {p \in Pcts : p > 0}, w \in Powers :
            get_children(Cur, n) # <<>> =>
                \A o \in Shuffles(n) :
                    LET s == facade_force_overload(Cur, n, pct, o, w)
                    IN  ~Stopped(s) /\ ~Overloaded(s, n)

\* how often node_id occurs in the list
Occurrences(list, node_id) == Cardinality({i \in 1..Len(list) : list[i] = node_id})

\* C17 (attached nodes are visible): after add_node_with_routing of a node of any
\* type, whether or not routing finds a parent for it, the id of the node occurs
\* exactly once in iter_preorder() from the default roots, the list the tree snapshot
\* is built from.
C17_AttachedVisible ==
    pc = "idle" =>
        \A n \in Ids \ DOMAIN nodes, node \in NodeValues, nbrs \in SUBSET DOMAIN nodes :
            LET s == add_node_with_routing(Cur, n, node, EdgesTo(n, nbrs)).s
            IN  ~Stopped(s) /\ Occurrences(iter_preorder(s), n) = 1

\* the number of consumers in the graph
TotalConsumers == Cardinality(OfType(CONSUMER_POINT))

\* C18 (capacity initialisation): after initialize_capacities(graph, index) every
\* consumer has no capacity, every distribution substation has capacity
\* 13 * (number of its children in the forest + 1), every transmission substation
\* 13 * 0.75 * (number of consumers in the graph), and every plant
\* 13 * (number of consumers). The capacity of a transmission substation is stored
\* rounded down, so it is compared by 4 * capacity <= 39 * consumers < 4 * (capacity + 1).
\* Checked where the backend calls it: on the forest hydrate_from_physical has built.
C18_CapacityInitialisation ==
    (pc = "idle" /\ last = "hydrate") =>
        LET s == initialize_capacities(Cur)
        IN  /\ ~Stopped(s)
            /\ \A n \in OfType(CONSUMER_POINT) : s.nodes[n].capacity = NoCap
            /\ \A n \in OfType(DISTRIBUTION_SUBSTATION) :
                   s.nodes[n].capacity = 13 * (Len(get_children(Cur, n)) + 1)
            /\ \A n \in OfType(TRANSMISSION_SUBSTATION) :
                   /\ s.nodes[n].capacity # NoCap
                   /\ 4 * s.nodes[n].capacity <= 39 * TotalConsumers
                   /\ 39 * TotalConsumers < 4 * (s.nodes[n].capacity + 1)
            /\ \A n \in OfType(GENERATION_PLANT) : s.nodes[n].capacity = 13 * TotalConsumers

\* C19 (drain-on-read log): consume_logs() returns every message logged since the
\* previous read, in order, and empties the buffer; a second read with nothing logged
\* in between returns the empty list; no message is returned twice. So what has been
\* returned so far, followed by what is still buffered, is always exactly what was
\* logged.
C19_DrainOnRead ==
    /\ delivered \o log_buffer = logged
    /\ last = "consume_logs" => (log_buffer = <<>> /\ delivered = logged)
    /\ LET first == consume_logs(log_buffer)
           second == consume_logs(first.log_buffer)
       IN  /\ first.logs = log_buffer
           /\ first.log_buffer = <<>>
           /\ second.logs = <<>>
           /\ delivered \o first.logs \o second.logs = logged

\* MaxLog messages, both texts among them, have been logged and read
C19_Witness ==
    /\ last = "consume_logs"
    /\ Len(delivered) = MaxLog
    /\ Range(delivered) = Messages
    /\ log_buffer = <<>>

\* the forest of s is the current forest
ForestSame(s) == s.parent = _parent /\ s.children = _children

\* C20 (cycle rejection): set_parent(child, parent) and move_subtree(child, parent)
\* both leave the forest completely unchanged when parent is child or parent is a
\* descendant of child.
C20_CycleRejection ==
    pc = "idle" =>
        \A child \in Ids, parent \in Ids :
            (parent = child \/ _is_descendant(Cur, child, parent)) =>
                /\ ForestSame(move_subtree(Cur, child, parent))
                /\ ForestSame(set_parent(Cur, child, parent))

\* parent p has room for child c: no capacity limit, or the stored loads fit
HasRoom(p, c) ==
    \/ nodes[p].capacity = NoCap
    \/ nodes[p].current_load + nodes[c].current_load <= nodes[p].capacity

\* C21 (routing honours residual capacity): change_parent_with_routing attaches the
\* child whenever at least one physically reachable node of an allowed parent type has
\* room for it, and it answers "insufficient capacity" only when every reachable
\* node of an allowed type lacks room.
C21_RoutingHonoursCapacity ==
    pc = "idle" =>
        \A c \in DOMAIN nodes :
            LET res == change_parent_with_routing(Cur, c)
            IN  /\ (\E p \in Candidates(c) : HasRoom(p, c)) =>
                       /\ res.r.success
                       /\ get_parent(res.s, c) \in DOMAIN nodes
                /\ res.r.reason = "new parent has insufficient capacity" =>
                       \A p \in Candidates(c) : ~HasRoom(p, c)

\* every consumer of the graph of s that has no parent is in the unsupplied set of s
Complete(s) ==
    \A c \in DOMAIN s.nodes :
        (s.nodes[c].node_type = CONSUMER_POINT /\ get_parent(s, c) = None) => c \in s.unsup

\* the operation returned, and its state has every parentless consumer marked
CompleteAfter(s) == Stopped(s) \/ Complete(s)

\* C22 (the unsupplied set is complete): after every completed operation (attach,
\* change_parent_with_routing, station removal, node removal, handle_overload,
\* check_system_health, retry_unsupplied, hydrate) every consumer of the graph that
\* has no parent in the forest is in the unsupplied set. Hydration establishes it
\* on the freshly built service, and each of the others keeps it.
C22_UnsuppliedComplete ==
    pc = "idle" =>
        /\ (_parent = EmptyDict /\ unsupplied_consumers = {}) =>
               CompleteAfter(hydrate_from_physical(Cur))
        /\ Complete(Cur) =>
               /\ \A n \in Ids \ DOMAIN nodes, node \in NodeValues, nbrs \in SUBSET DOMAIN nodes :
                      CompleteAfter(add_node_with_routing(Cur, n, node, EdgesTo(n, nbrs)).s)
               /\ \A n \in DOMAIN nodes :
                      /\ CompleteAfter(change_parent_with_routing(Cur, n).s)
                      /\ CompleteAfter(remove_station_and_reattach_children(Cur, n))
                      /\ \A g \in BOOLEAN : CompleteAfter(api_remove_node(Cur, n, g))
                      /\ \A o \in Shuffles(n) : CompleteAfter(handle_overload(Cur, n, o))
               /\ CompleteAfter(check_system_health(Cur))
               /\ CompleteAfter(retry_unsupplied_routing(Cur))

\* no node of s holds more load than its capacity
NoneOverloaded(s) == \A n \in DOMAIN s.nodes : ~Overloaded(s, n)

\* the load of every node of s that has children is the sum of their loads
LoadsConsistent(s) ==
    \A n \in DOMAIN s.nodes : get_children(s, n) # <<>> => Consistent(s, n)

\* C23 (attach never overloads the hierarchy): from a state in which the loads are
\* consistent and no node exceeds its capacity, a successful
\* change_parent_with_routing (called directly, or by add_node_with_routing for a new
\* consumer) or force_change_parent leaves no node over capacity, neither the new
\* parent nor any of its ancestors.
C23_AttachNeverOverloads ==
    (pc = "idle" /\ LoadsConsistent(Cur) /\ NoneOverloaded(Cur)) =>
        /\ \A c \in DOMAIN nodes :
               LET res == change_parent_with_routing(Cur, c)
               IN  res.r.success => (~Stopped(res.s) /\ NoneOverloaded(res.s))
        /\ \A c \in DOMAIN nodes, p \in DOMAIN nodes :
               LET res == force_change_parent(Cur, c, p)
               IN  res.r.success => (~Stopped(res.s) /\ NoneOverloaded(res.s))
        /\ \A n \in ScenarioIds \ DOMAIN nodes, w \in Loads \cup ScenarioLoads :
               LET res == add_node_with_routing(Cur, n, Node(CONSUMER_POINT, NoCap, w),
                                                EdgesTo(n, Neighbours(n)))
               IN  res.r.success => (~Stopped(res.s) /\ NoneOverloaded(res.s))

\* C24 (global type invariant): in every reachable state, also after an attach of a
\* node whose id is already in the graph, every parent/child pair of the forest has
\* allowed types (consumer under distribution substation, distribution under
\* transmission substation, transmission substation under plant) and no plant has a
\* parent.
C24_GlobalTypeInvariant ==
    pc = "idle" =>
        \A c \in DOMAIN nodes :
            get_parent(Cur, c) \in DOMAIN nodes =>
                nodes[get_parent(Cur, c)].node_type \in AllowedParentTypes(nodes[c].node_type)

\* C25 (removal keeps loads consistent): after a node that has a parent is removed
\* through api_remove_node, from a state with consistent loads, the load of its
\* former parent is the sum of the loads of the children the parent has left, and
\* every ancestor of the former parent is consistent in the same way.
C25_RemovalKeepsLoads ==
    (pc = "idle" /\ LoadsConsistent(Cur)) =>
        \A n \in DOMAIN nodes, g \in BOOLEAN :
            get_parent(Cur, n) \in DOMAIN nodes =>
                LET s == api_remove_node(Cur, n, g)
                IN  /\ ~Stopped(s)
                    /\ \A a \in UpSet(Cur, get_parent(Cur, n), {}) \cap DOMAIN s.nodes :
                           Consistent(s, a)

\* the power routing uses for the edge costs of a child
RoutingPower(c) == IF nodes[c].current_load = 0 THEN 1 ELSE nodes[c].current_load

\* the least of a non-empty set of numbers
Least(S) == CHOOSE x \in S : \A y \in S : x <= y

\* the cost of the cheapest physical path to each node, by relaxing every edge
\* `rounds` times (Bellman-Ford); dist gives the costs known so far
RECURSIVE Cheapest(_, _, _)
Cheapest(dist, power, rounds) ==
    IF rounds = 0 THEN dist
    ELSE Cheapest([m \in DOMAIN dist |->
                      Least({dist[m]} \cup
                            {dist[OtherEnd(k, m)] + estimate_edge_loss(edges[k], power) :
                               k \in {e \in IncidentEdges(Cur, m) : OtherEnd(e, m) \in DOMAIN dist}})],
                  power, rounds - 1)

CheapestFrom(c) ==
    Cheapest([m \in DOMAIN nodes |-> IF m = c THEN 0 ELSE Inf], RoutingPower(c),
             Cardinality(DOMAIN nodes))

\* the sum of the edge costs along a path of node ids
RECURSIVE PathCost(_, _)
PathCost(path, power) ==
    IF Len(path) < 2 THEN 0
    ELSE estimate_edge_loss(edges[EdgeId(path[1], path[2])], power) + PathCost(Tail(path), power)

\* C26 (lowest-cost parent): whenever find_best_parent_for_node returns a parent p for
\* a child, p has a type allowed for the child, the returned path starts at the
\* child, ends at p and follows physical edges, the returned total cost is the sum of
\* the edge costs along the path, and no reachable node of an allowed type has a
\* strictly cheaper path from the child.
C26_LowestCostParent ==
    pc = "idle" =>
        \A c \in DOMAIN nodes :
            LET r == find_best_parent_for_node(Cur, c)
                path == r.path
            IN  r.parent_id # None =>
                    /\ r.parent_id \in DOMAIN nodes
                    /\ nodes[r.parent_id].node_type \in AllowedParentTypes(nodes[c].node_type)
                    /\ Len(path) >= 2 /\ path[1] = c /\ path[Len(path)] = r.parent_id
                    /\ \A i \in 1..(Len(path) - 1) : EdgeId(path[i], path[i + 1]) \in DOMAIN edges
                    /\ r.total_cost = PathCost(path, RoutingPower(c))
                    /\ \A q \in Candidates(c) : CheapestFrom(c)[q] >= r.total_cost

\* a parent found over more than one edge, with a dearer candidate left aside
C26_Witness ==
    /\ pc = "idle"
    /\ \E c \in DOMAIN nodes :
           LET r == find_best_parent_for_node(Cur, c)
           IN  /\ r.parent_id # None
               /\ Len(r.path) >= 3
               /\ \E q \in Candidates(c) : CheapestFrom(c)[q] > r.total_cost

\* the selector has nothing to return for child c: c is absent, c is a plant, or no
\* node of an allowed parent type is linked to c by a physical path
NoRoute(c) ==
    \/ c \notin DOMAIN nodes
    \/ nodes[c].node_type = GENERATION_PLANT
    \/ Candidates(c) = {}

\* what change_parent_with_routing does when there is no route, but for the reason
\* it reports
NoRouteOutcome(c, res) ==
    /\ ~Stopped(res.s)
    /\ ~res.r.success
    /\ res.s.parent = _parent /\ res.s.children = _children
    /\ res.s.nodes = nodes /\ res.s.edges = edges
    /\ res.s.unsup = IF c \in OfType(CONSUMER_POINT) THEN unsupplied_consumers \cup {c}
                     ELSE unsupplied_consumers

\* C27 (no-route outcome): the parent selector returns no parent exactly when the
\* child is absent, is a plant, or has no node of an allowed parent type physically
\* reachable; in that case change_parent_with_routing fails with "no compatible
\* parent", leaves every parent link unchanged and, if the child is a consumer, adds
\* it to the unsupplied set.
C27_NoRouteOutcome ==
    pc = "idle" =>
        \A c \in Ids :
            /\ (find_best_parent_for_node(Cur, c).parent_id = None) <=> NoRoute(c)
            /\ NoRoute(c) =>
                   LET res == change_parent_with_routing(Cur, c)
                   IN  /\ NoRouteOutcome(c, res)
                       /\ res.r.reason = "no compatible parent found via routing"

\* C27 as amended: the same, except that for a child that is absent from the graph
\* the failure reported is "child node not found".
C27_NoRouteOutcomeByCase ==
    pc = "idle" =>
        \A c \in Ids :
            /\ (find_best_parent_for_node(Cur, c).parent_id = None) <=> NoRoute(c)
            /\ NoRoute(c) =>
                   LET res == change_parent_with_routing(Cur, c)
                   IN  /\ NoRouteOutcome(c, res)
                       /\ res.r.reason = IF c \in DOMAIN nodes
                                         THEN "no compatible parent found via routing"
                                         ELSE "child node not found"

\* a consumer that has a parent, with no distribution substation reachable any more,
\* is routed: it keeps its parent link and becomes unsupplied
C27_Witness ==
    /\ pc = "idle"
    /\ \E c \in OfType(CONSUMER_POINT) :
           /\ NoRoute(c)
           /\ c \notin unsupplied_consumers
           /\ c \in change_parent_with_routing(Cur, c).s.unsup
    /\ \E c \in Ids : c \notin DOMAIN nodes

\* C28 (re-routing to the current parent is a no-op): when the candidate the selector
\* returns is the child's current parent, change_parent_with_routing returns success
\* and leaves the forest, every node's load and capacity and the unsupplied set
\* unchanged, whatever residual capacity the parent has.
C28_RerouteToCurrentParent ==
    pc = "idle" =>
        \A c \in DOMAIN nodes :
            (/\ get_parent(Cur, c) # None
             /\ find_best_parent_for_node(Cur, c).parent_id = get_parent(Cur, c)) =>
                LET res == change_parent_with_routing(Cur, c)
                IN  /\ res.r.success
                    /\ res.r.new_parent_id = get_parent(Cur, c)
                    /\ Untouched(res.s)

\* a child whose best candidate is its current parent, and that parent has no room
\* for it by the stored loads
C28_Witness ==
    /\ pc = "idle"
    /\ \E c \in DOMAIN nodes :
           /\ get_parent(Cur, c) \in DOMAIN nodes
           /\ find_best_parent_for_node(Cur, c).parent_id = get_parent(Cur, c)
           /\ ~_has_capacity_for_child(nodes[get_parent(Cur, c)], nodes[c])
           /\ change_parent_with_routing(Cur, c).r.success

\* C29 (force_attach to the current parent is a no-op success): for every child that
\* is attached to a parent p of a compatible type, force_change_parent(child, p)
\* returns success and changes nothing, whatever p's load and capacity are.
C29_ForceToCurrentParent ==
    pc = "idle" =>
        \A c \in DOMAIN nodes :
            LET p == get_parent(Cur, c)
            IN  (/\ p \in DOMAIN nodes
                 /\ nodes[p].node_type \in svc_allowed_parent_types_for(nodes[c].node_type)) =>
                    LET res == force_change_parent(Cur, c, p)
                    IN  res.r.success /\ Untouched(res.s)

\* C30 (child lists are disjoint and mirror parent links): in every state reached by
\* add_root, set_parent, move_subtree, detach and remove, every id occurs in at most
\* one child list and at most once in it, and c in get_children(p) implies
\* get_parent(c) = p.
C30_ChildListsMirrorParents ==
    pc = "idle" =>
        /\ \A p \in DOMAIN _children :
               \A i \in 1..Len(_children[p]) :
                   /\ get_parent(Cur, _children[p][i]) = p
                   /\ \A j \in 1..Len(_children[p]) :
                          _children[p][i] = _children[p][j] => i = j
        /\ \A p \in DOMAIN _children, q \in DOMAIN _children :
               \A i \in 1..Len(_children[p]), j \in 1..Len(_children[q]) :
                   _children[p][i] = _children[q][j] => p = q

\* the state of the detach phase of check_system_health once the first k nodes of the
\* graph have been examined
Examined(k) == health_loop(Cur, SubSeq(nodes_order, 1, k))

\* C31 (preventive sweep): when check_system_health is called in a state with
\* consistent loads, its detach phase detaches a node only if the load of the node's
\* parent exceeded the parent's capacity when the node was examined, the parent's load
\* is recomputed before the next node is examined, every detached consumer is added to
\* the unsupplied set, and at the end of the detach phase (before the retry sweep)
\* every node with a capacity and at least one child has current_load <= capacity.
C31_PreventiveSweep ==
    (pc = "idle" /\ LoadsConsistent(Cur)) =>
        /\ \A k \in 1..Len(nodes_order) :
               LET before == Examined(k - 1)
                   after == Examined(k)
                   n == nodes_order[k]
                   p == get_parent(before, n)
               IN  /\ ~Stopped(after)
                   /\ (after.parent # before.parent \/ after.children # before.children) =>
                          /\ p \in DOMAIN nodes
                          /\ before.nodes[p].capacity # NoCap
                          /\ before.nodes[p].current_load > before.nodes[p].capacity
                          /\ get_parent(after, n) = None
                          /\ n \notin Range(get_children(after, p))
                          /\ after.nodes[p].current_load = SumSeq(ChildLoads(after, p))
                          /\ IsConsumer(after, n) => n \in after.unsup
        /\ LET end == Examined(Len(nodes_order))
           IN  \A n \in DOMAIN nodes :
                   (end.nodes[n].capacity # NoCap /\ get_children(end, n) # <<>>) =>
                       end.nodes[n].current_load <= end.nodes[n].capacity

\* check_system_health is called with consistent loads and a station over its
\* capacity, and its detach phase detaches a consumer that was supplied
C31_Witness ==
    /\ pc = "idle" /\ LoadsConsistent(Cur)
    /\ \E d \in DOMAIN nodes : Overloaded(Cur, d)
    /\ \E c \in OfType(CONSUMER_POINT) :
           /\ get_parent(Cur, c) # None
           /\ c \notin unsupplied_consumers
           /\ get_parent(Examined(Len(nodes_order)), c) = None
           /\ c \in Examined(Len(nodes_order)).unsup

\* id occurs in some child list of s
InSomeChildList(s, id) == \E p \in DOMAIN s.children : id \in Range(s.children[p])

\* C32 (removal orphans, never cascades): after remove_node(id), id has no entry in
\* the forest and is in no child list, every node whose parent was id has a null
\* parent and is still in the forest with its own children unchanged, and no other
\* parent link changes.
C32_RemovalOrphans ==
    pc = "idle" =>
        \A id \in Ids :
            LET after == remove_node(Cur, id)
            IN  /\ id \notin DOMAIN after.parent
                /\ id \notin DOMAIN after.children
                /\ ~InSomeChildList(after, id)
                /\ \A x \in DOMAIN _parent \ {id} :
                       /\ x \in DOMAIN after.parent
                       /\ after.parent[x] = IF _parent[x] = id THEN None ELSE _parent[x]
                       /\ _parent[x] = id =>
                              (x \in DOMAIN _children =>
                                   (x \in DOMAIN after.children
                                    /\ after.children[x] = _children[x]))

RootLists == {<<>>} \cup {<<a>> : a \in Ids} \cup {<<a, b>> : a \in Ids, b \in Ids}

\* the ids that can be reached from the ids of root_ids through child lists
ReachableFrom(root_ids) ==
    Range(root_ids) \cup {x \in Ids : \E a \in Range(root_ids) : _is_descendant(Cur, a, x)}

\* the place of x in the list r
Place(r, x) == CHOOSE i \in 1..Len(r) : r[i] = x

\* r lists the ids reachable from root_ids once each, every node before its
\* descendants and siblings in the order of their parent's child list
IsPreorder(r, root_ids) ==
    /\ Range(r) = ReachableFrom(root_ids)
    /\ \A i, j \in 1..Len(r) : r[i] = r[j] => i = j
    /\ \A i, j \in 1..Len(r) :
           (r[i] # r[j] /\ _is_descendant(Cur, r[i], r[j])) => i < j
    /\ \A p \in Range(r) :
           LET kids == get_children(Cur, p)
           IN  \A a, b \in 1..Len(kids) : a < b => Place(r, kids[a]) < Place(r, kids[b])

\* C34 (preorder traversal): iter_preorder(roots) returns every id reachable from
\* the given roots through child lists exactly once, each node before all of its
\* descendants and siblings in the order in which they were attached; with no
\* argument it starts from all nodes whose parent is null.
C34_PreorderTraversal ==
    pc = "idle" =>
        /\ \A root_ids \in RootLists : IsPreorder(iter_preorder_from(Cur, root_ids), root_ids)
        /\ IsPreorder(iter_preorder(Cur), SortedSeq(get_roots(Cur)))

\* the attempts of id_list go from transmission to distribution to consumer, and none
\* of them is for a plant
InPriorityOrder(id_list) ==
    /\ \A i, j \in 1..Len(id_list) :
           i < j => routing_priority(nodes[id_list[i]].node_type)
                        <= routing_priority(nodes[id_list[j]].node_type)
    /\ \A i \in 1..Len(id_list) : nodes[id_list[i]].node_type # GENERATION_PLANT

\* C35 (hierarchy priority): in hydrate_from_physical and in every
\* retry_unsupplied_routing sweep the routing attempt of every transmission substation
\* precedes that of every distribution substation, which precedes that of every
\* consumer; hydrate registers every plant as a root before any attempt, and neither
\* sweep attempts to route a plant.
C35_HierarchyPriority ==
    pc = "idle" =>
        LET seeded == add_roots(Cur, nodes_order)
        IN  /\ InPriorityOrder(hydrate_nodes_to_process(Cur))
            /\ Range(hydrate_nodes_to_process(Cur)) = DOMAIN nodes \ OfType(GENERATION_PLANT)
            /\ InPriorityOrder(retry_orphans(Cur))
            /\ Range(retry_orphans(Cur)) =
                   {n \in DOMAIN nodes \ OfType(GENERATION_PLANT) : get_parent(Cur, n) = None}
            /\ OfType(GENERATION_PLANT) \subseteq get_roots(seeded)
            /\ hydrate_from_physical(Cur) = route_each(seeded, hydrate_nodes_to_process(Cur))

\* a graph whose nodes were added consumer first, then a distribution and a
\* transmission substation, and a plant, none of them in the forest yet: both sweeps
\* have to reorder their attempts
C35_Witness ==
    /\ pc = "idle"
    /\ \E c \in OfType(CONSUMER_POINT), d \in OfType(DISTRIBUTION_SUBSTATION),
          t \in OfType(TRANSMISSION_SUBSTATION) :
           /\ c < d /\ d < t
           /\ {c, d, t} \subseteq Range(retry_orphans(Cur))
           /\ hydrate_nodes_to_process(Cur) # SelectSeq(nodes_order, LAMBDA n : n \in {c, d, t})
    /\ OfType(GENERATION_PLANT) # {}
    /\ DOMAIN _parent = {}

\* the state of a retry_unsupplied_routing sweep called now and stopped after k of
\* its routing attempts
Attempted(k) ==
    retry_loop(Cur, SubSeq(retry_orphans(Cur), 1, k),
               [n \in DOMAIN nodes |-> nodes[n].node_type])

\* every id of a child list has that list's owner as its one parent
SingleParent(s) ==
    \A p \in DOMAIN s.children :
        \A i \in 1..Len(s.children[p]) : get_parent(s, s.children[p][i]) = p

\* no node is its own descendant
NoCycle(s) == \A a \in DOMAIN s.children : ~_is_descendant(s, a, a)

ValidState(s) == ~Stopped(s) /\ SingleParent(s) /\ NoCycle(s) /\ LoadsConsistent(s)

\* C36 (interruptible sweeps): at every point between two routing attempts of a
\* retry_unsupplied_routing sweep the forest satisfies the single-parent and no-cycle
\* invariants and every node with children has current_load equal to the sum of its
\* children's loads, so stopping the sweep after any number of attempts leaves a
\* valid state.
C36_InterruptibleSweeps ==
    pc = "idle" =>
        \A k \in 1..Len(retry_orphans(Cur)) : ValidState(Attempted(k))

\* C37 (termination): in every state reachable by the operations of the service,
\* every call of change_parent_with_routing terminates, its shortest-path search
\* and the upward load propagation from the old and the new parent included.
C37_Termination ==
    pc = "idle" =>
        \A c \in Ids : ~change_parent_with_routing(Cur, c).s.hung

\* the capacities a station is given before its status is read
ShownCaps == {NoCap, 0, 1, 5}

\* the status the specification derives for node n of s from the unsupplied set and
\* from current_load and capacity alone
DerivedStatusHolds(s, n) ==
    LET st == _compute_status(s, n, s.unsup)
        load == s.nodes[n].current_load
        capacity == s.nodes[n].capacity
    IN  /\ n \in s.unsup => st = "UNSUPPLIED"
        /\ n \notin s.unsup =>
               /\ st = "OVERLOADED" <=> (capacity # NoCap /\ load > capacity)
               /\ (capacity # NoCap /\ capacity * 4 <= load * 5 /\ load <= capacity)
                      => st = "WARNING"
               /\ (capacity = NoCap \/ load * 5 < capacity * 4) => st = "NORMAL"
               /\ st = "OVERLOADED" <=> Overloaded(s, n)
               /\ handle_overload(s, n, get_children(s, n)) # s => st = "OVERLOADED"

\* C38 (status derivation): the status shown for a node is Unsupplied if the node is
\* in the unsupplied set, and otherwise follows from current_load and capacity alone:
\* Overloaded exactly when current_load > capacity, Warning when
\* 0.8 * capacity <= current_load <= capacity, Normal when current_load < 0.8 * capacity
\* or the node has no capacity; so a node is shown Overloaded exactly when
\* handle_overload would treat it as over capacity.
C38_StatusDerivation ==
    pc = "idle" =>
        /\ \A n \in DOMAIN nodes : DerivedStatusHolds(Cur, n)
        /\ \A n \in Stations, c \in ShownCaps :
               DerivedStatusHolds(set_node_capacity(Cur, n, c), n)

====
